---- MODULE Spec2Model ----
(***************************************************************************)
(* A model of the go-pec certified-mail servers: the Access Point, the     *)
(* Reception Point and the Delivery Point handlers, with the SMTP session  *)
(* that drives them, the in-memory message store and the mailbox sinks.    *)
(*                                                                         *)
(* Conventions.  A Go string that the code inspects character by character *)
(* (a mail address) is a tuple of one-character strings; a header value    *)
(* that the code only compares is a TLA+ string, and "" is what Header.Get *)
(* returns for an absent header.  The result of Header.AddressList is a    *)
(* record [err, list].  A Go panic is the outcome "panic".                 *)
(***************************************************************************)
EXTENDS Integers, Sequences, FiniteSets, TLC

VARIABLES
    \* ---- Delivery Point: PuntoConsegnaSession and PuntoConsegnaServer
    dpFrom,      \* PuntoConsegnaSession.from
    dpTo,        \* PuntoConsegnaSession.to
    dpPc,        \* position of the session: "idle", "loop", "done", "panicked"
    dpMsg,       \* the message Data is processing
    dpIdx,       \* index of the next recipient in the loop of Data
    dpLog,       \* per recipient handled by processMessage: what happened
    dpSent,      \* notices handed to smtp.SendMail by SendEntity
    dpResult,    \* what Data returned
    dpCount,     \* number of Data commands handled
    mailboxes,   \* PuntoConsegnaServer.mailboxes: recipient -> mailbox
    \* ---- Access Point and Reception Point: common.Session and its Backend
    sAuth,       \* Session.auth
    sFrom,       \* Session.From
    sTo,         \* Session.To
    sData,       \* Session.data: the messages written to the buffer, in order
    sReplies,    \* what Session.Data returned, one entry per DATA command
    sPc,         \* "open", or "closed" once a handler panicked
    sent,        \* what the handlers handed to the HTTP and SMTP sinks
    sStore,      \* Session.Store, the InMemoryStore: messages and nextUID by key
    sSigner,     \* Session.signer
    sHandler,    \* Session.handler
    \* ---- the receipt factory and the parser, called on their own
    clock,       \* time.Now(), in ticks of the resolution the code formats it to
    generated,   \* the receipts the factory returned, in order
    libCall,     \* the last call of the parser or classifier: input and result
    \* ---- IMAP IDLE: the IMAPMailbox of a user and the store's notifier
    idle,        \* per listener: its mailbox object, updateCh, the goroutine's hand, ch
    appended,    \* messages InMemoryStore.AddMessage appended to the mailbox
    notifying,   \* per mailbox object: "go notify()" goroutines not yet run
    opened,      \* IMAPMailbox objects GetMailbox made for the user
    notifier,    \* InMemoryStore.notifiers of the user: the object notified, or 0
    locked,      \* the mailbox objects whose idleMutex NotifyUpdate holds
    stop,        \* StopListenUpdates in its loop: the object, the channel just closed
    crashed,     \* a goroutine panicked: the process is gone
    \* ---- the InMemoryStore used on its own (its messages are sStore)
    backing,     \* per key: the array behind the list of the mailbox, and its cap
    held,        \* the list GetMessages returned to a reader who still holds it
    passwordHash \* InMemoryStore.passwordHash

dpVars == <<dpFrom, dpTo, dpPc, dpMsg, dpIdx, dpLog, dpSent, dpResult, dpCount, mailboxes>>

sVars == <<sAuth, sFrom, sTo, sData, sReplies, sPc, sent, sStore, sSigner, sHandler>>

fVars == <<clock, generated, libCall>>

iVars == <<idle, appended, notifying, opened, notifier, locked, stop, crashed>>

stVars == <<backing, held, passwordHash>>

vars == <<dpVars, sVars, fVars, iVars, stVars>>

-----------------------------------------------------------------------------
(* Bounds of the model *)

\* recipients (RCPT commands) per SMTP transaction
MaxRcpt == 2
\* DATA commands a Delivery Point session handles
MaxData == 1
\* DATA commands an Access Point or Reception Point session handles
MaxSessionData == 1
\* ticks of the clock in a run of the receipt factory
MaxClock == 1
\* receipts the factory generates in a run
MaxGenerated == 2
\* DATA commands of a session that is used for several messages
MaxReuse == 2
\* bytes of a payload given to the Signer
MaxPayload == 4
\* characters of a base64 string given to formatBase64, and its line lengths
MaxB64 == 4
MaxLine == 3
\* IDLE listeners of one mailbox
MaxListeners == 2
\* messages appended to the mailbox while the listeners idle
MaxAppend == 3
\* IMAPMailbox objects opened for the user
MaxMailboxes == 2
\* messages a mailbox of the store holds at a time
MaxBox == 2
\* the UIDs the store assigns
MaxUid == 3

-----------------------------------------------------------------------------
(* Strings *)

\* strings.ToLower on one ASCII character
LowerChar(c) ==
    CASE c = "A" -> "a"
      [] c = "B" -> "b"
      [] c = "C" -> "c"
      [] c = "X" -> "x"
      [] OTHER -> c

\* strings.ToLower on a string held as a tuple of characters
ToLower(s) == [i \in DOMAIN s |-> LowerChar(s[i])]

\* strings.EqualFold on ASCII strings
EqualFold(s, t) == ToLower(s) = ToLower(t)

\* strings.ToLower on the header values the handlers compare
StrToLower(v) ==
    CASE v = "Posta-Certificata" -> "posta-certificata"
      [] v = "BREVE" -> "breve"
      [] OTHER -> v

\* the addresses of the model
AddrA    == <<"a", "@", "x">>
AddrAUp  == <<"A", "@", "X">>
AddrB    == <<"b", "@", "x">>
AddrBUp  == <<"B", "@", "x">>
AddrC    == <<"c", "@", "x">>
NoAddr   == <<>>

\* the configured domain of the provider (Config.Domain)
Domain == <<"x">>

\* an address posta-certificata@<domain> / postmaster@<domain>
ServiceAddr(local, domain) == <<local, "@">> \o domain

-----------------------------------------------------------------------------
(* Delivery Point *)

\* the messages a Delivery Point session is given; ok = FALSE is a message
\* message.Read cannot parse
DPMessages ==
    { [ok |-> FALSE, xTrasporto |-> "", xRicevuta |-> "", from |-> NoAddr,
       to |-> <<>>, cc |-> <<>>, msgId |-> "", subject |-> "",
       xTipoRicevuta |-> ""] }
    \cup
    [ ok : {TRUE},
      xTrasporto : {"posta-certificata", "Posta-Certificata"},
      xRicevuta : {""},
      from : {AddrA},
      to : {<<AddrB>>, <<AddrB, AddrC>>},
      cc : {<<>>},
      msgId : {"<m1@x>"},
      subject : {"Test"},
      xTipoRicevuta : {"", "breve"} ]
    \cup
    [ ok : {TRUE},
      xTrasporto : {"", "errore"},
      xRicevuta : {"", "avvenuta-consegna"},
      from : {AddrA},
      to : {<<AddrB>>},
      cc : {<<>>},
      msgId : {"<r1@x>"},
      subject : {"CONSEGNA: Test"},
      xTipoRicevuta : {""} ]

NoMessage == [ok |-> FALSE, xTrasporto |-> "", xRicevuta |-> "", from |-> NoAddr,
              to |-> <<>>, cc |-> <<>>, msgId |-> "", subject |-> "",
              xTipoRicevuta |-> ""]

DPRecipients == {AddrB, AddrC}

\* a Mailbox of PuntoConsegnaServer.mailboxes; registered = FALSE is a key
\* the map does not hold
NoMailbox == [registered |-> FALSE, available |-> FALSE, msgs |-> <<>>]

\* PuntoConsegnaSession.isTransportEnvelope
isTransportEnvelope(msg) == StrToLower(msg.xTrasporto) = "posta-certificata"

\* strings.TrimSpace on the header values the handlers compare
TrimSpace(v) ==
    CASE v = " breve" -> "breve"
      [] OTHER -> v

\* parseReceiptType: the ReceiptType the X-TipoRicevuta header asks for
parseReceiptType(msg) ==
    LET tipoRicevuta == StrToLower(TrimSpace(msg.xTipoRicevuta))
    IN  CASE tipoRicevuta = "breve" -> "ReceiptTypeShort"
          [] tipoRicevuta = "sintetica" -> "ReceiptTypeSynthetic"
          [] OTHER -> "ReceiptTypeNormal"

\* a recipient type read off the Cc field before the To field
determineCcFirst(originalMsg, recipient) ==
    IF \E i \in DOMAIN originalMsg.cc : EqualFold(originalMsg.cc[i], recipient)
        THEN "RecipientTypeCC"
    ELSE IF \E i \in DOMAIN originalMsg.to : EqualFold(originalMsg.to[i], recipient)
        THEN "RecipientTypePrimary"
    ELSE "RecipientTypeAmbiguous"

\* determineRecipientType; to and cc are what mail.ParseAddressList makes of
\* the fields, no address when the field is empty or does not parse
determineRecipientType(originalMsg, recipient) ==
    IF \E i \in DOMAIN originalMsg.to : EqualFold(originalMsg.to[i], recipient)
        THEN "RecipientTypePrimary"
    ELSE IF \E i \in DOMAIN originalMsg.cc : EqualFold(originalMsg.cc[i], recipient)
        THEN "RecipientTypeCC"
    ELSE "RecipientTypeAmbiguous"

\* createNormalReceiptBody: the content types of the parts of the
\* multipart/mixed body
createNormalReceiptBody(originalMsg, recipient) ==
    LET recipientType == determineRecipientType(originalMsg, recipient)
        includeOriginal == recipientType = "RecipientTypePrimary"
                           \/ recipientType = "RecipientTypeAmbiguous"
    IN  <<"text/plain", "application/xml">>
            \o (IF includeOriginal THEN <<"message/rfc822">> ELSE <<>>)

\* createShortReceiptBody: a text, not a multipart
createShortReceiptBody(originalMsg, recipient) == <<"text/plain">>

\* createSyntheticReceiptBody: a text, not a multipart
createSyntheticReceiptBody(originalMsg, recipient) == <<"text/plain">>

\* PuntoConsegnaSession.createDeliveryReceipt: the header of the receipt and
\* the parts of its body
createDeliveryReceipt(originalMsg, recipient) ==
    [ kind      |-> "delivery-receipt",
      xTipoRicevuta |->
          CASE parseReceiptType(originalMsg) = "ReceiptTypeShort" -> "breve"
            [] parseReceiptType(originalMsg) = "ReceiptTypeSynthetic" -> "sintetica"
            [] OTHER -> "normale",
      body |->
          CASE parseReceiptType(originalMsg) = "ReceiptTypeShort" ->
                    createShortReceiptBody(originalMsg, recipient)
            [] parseReceiptType(originalMsg) = "ReceiptTypeSynthetic" ->
                    createSyntheticReceiptBody(originalMsg, recipient)
            [] OTHER -> createNormalReceiptBody(originalMsg, recipient),
      xRicevuta |-> "avvenuta-consegna",
      subject   |-> <<"CONSEGNA", IF originalMsg.subject = "" THEN "(nessun oggetto)"
                                  ELSE originalMsg.subject>>,
      from      |-> ServiceAddr("posta-certificata", Domain),
      to        |-> originalMsg.from,
      xRiferimentoMessageID |-> originalMsg.msgId,
      references |-> "",
      recipient |-> recipient ]

\* PuntoConsegnaSession.createNonDeliveryNotice: the header of the notice
createNonDeliveryNotice(originalMsg, recipient) ==
    [ kind      |-> "non-delivery-notice",
      xRicevuta |-> "mancata-consegna",
      subject   |-> <<"Avviso di mancata consegna", "">>,
      from      |-> ServiceAddr("postmaster", Domain),
      to        |-> originalMsg.from,
      xRiferimentoMessageID |-> "",
      references |-> originalMsg.msgId,
      recipient |-> recipient ]

\* the io.Writer SendEntity writes the entity to: declared and never assigned
SendEntityWriter == "nil"

\* Entity.WriteTo(w): writing the header to a nil io.Writer panics
WriteTo(w) == IF w = "nil" THEN "panic" ELSE "ok"

\* PuntoConsegnaSession.SendEntity: the outcome, and what smtp.SendMail is given.
\* sendOK is the answer of smtp.SendMail, were it reached.
SendEntity(receipt, to, sendOK) ==
    IF WriteTo(SendEntityWriter) = "panic"
    THEN [outcome |-> "panic", sent |-> <<>>]
    ELSE IF sendOK THEN [outcome |-> "ok", sent |-> <<[msg |-> receipt, to |-> to]>>]
         ELSE [outcome |-> "err", sent |-> <<>>]

\* PuntoConsegnaServer.DeliverMessage: mailboxOK is the answer of the mailbox's
\* own DeliverMessage
DeliverMessage(boxes, to, mailboxOK) ==
    IF ~boxes[to].registered \/ ~boxes[to].available THEN "err"
    ELSE IF mailboxOK THEN "ok" ELSE "err"

\* PuntoConsegnaSession.processMessage for one recipient: the delivery result,
\* the send result and the error it returns
processMessage(boxes, from, msg, recipient, mailboxOK, sendOK) ==
    LET transport == isTransportEnvelope(msg)
        delivery  == IF transport THEN DeliverMessage(boxes, recipient, mailboxOK)
                     ELSE "skipped"
        notice    == IF delivery = "err"
                     THEN createNonDeliveryNotice(msg, recipient)
                     ELSE createDeliveryReceipt(msg, recipient)
        send      == IF transport THEN SendEntity(notice, <<from>>, sendOK)
                     ELSE [outcome |-> "skipped", sent |-> <<>>]
    IN [ recipient |-> recipient,
         transport |-> transport,
         notice    |-> notice,
         delivery  |-> delivery,
         send      |-> send.outcome,
         sent      |-> send.sent,
         return    |-> IF send.outcome = "panic" THEN "panic"
                       ELSE IF delivery = "err" THEN "err" ELSE "nil" ]

\* PuntoConsegnaServer.RegisterMailbox
RegisterMailbox(recipient, available) ==
    /\ mailboxes' = [mailboxes EXCEPT ![recipient] =
                        [registered |-> TRUE, available |-> available, msgs |-> <<>>]]
    /\ UNCHANGED <<dpFrom, dpTo, dpPc, dpMsg, dpIdx, dpLog, dpSent, dpResult, dpCount, sVars, fVars, iVars, stVars>>

\* PuntoConsegnaSession.Mail
DPMail(from) ==
    /\ dpPc = "idle"
    /\ dpFrom' = from
    /\ UNCHANGED <<dpTo, dpPc, dpMsg, dpIdx, dpLog, dpSent, dpResult, dpCount, mailboxes, sVars, fVars, iVars, stVars>>

\* PuntoConsegnaSession.Rcpt
DPRcpt(to) ==
    /\ dpPc = "idle"
    /\ Len(dpTo) < MaxRcpt
    /\ dpTo' = Append(dpTo, to)
    /\ UNCHANGED <<dpFrom, dpPc, dpMsg, dpIdx, dpLog, dpSent, dpResult, dpCount, mailboxes, sVars, fVars, iVars, stVars>>

\* PuntoConsegnaSession.Data, up to the loop over the recipients; the SMTP
\* server takes DATA only after MAIL and RCPT were accepted
DPData(msg) ==
    /\ dpPc = "idle"
    /\ dpFrom # NoAddr /\ dpTo # <<>>
    /\ dpCount < MaxData
    /\ dpCount' = dpCount + 1
    /\ dpMsg' = msg
    /\ dpIdx' = 1
    /\ IF msg.ok
       THEN dpPc' = "loop" /\ dpResult' = "running"
       ELSE dpPc' = "done" /\ dpResult' = "err"
    /\ UNCHANGED <<dpFrom, dpTo, dpLog, dpSent, mailboxes, sVars, fVars, iVars, stVars>>

\* one iteration of the loop of Data: processMessage for the next recipient
DPProcessRecipient(mailboxOK, sendOK) ==
    /\ dpPc = "loop"
    /\ dpIdx <= Len(dpTo)
    /\ LET r == processMessage(mailboxes, dpFrom, dpMsg, dpTo[dpIdx], mailboxOK, sendOK)
       IN /\ dpLog' = Append(dpLog, [data |-> dpCount, idx |-> dpIdx,
                                     recipient |-> r.recipient, transport |-> r.transport,
                                     delivery |-> r.delivery, send |-> r.send,
                                     return |-> r.return])
          /\ dpSent' = dpSent \o r.sent
          /\ mailboxes' = IF r.delivery = "ok"
                          THEN [mailboxes EXCEPT ![r.recipient].msgs = Append(@, dpMsg)]
                          ELSE mailboxes
          /\ IF r.return = "panic"
             THEN dpPc' = "panicked" /\ dpResult' = "panic" /\ dpIdx' = dpIdx
             ELSE dpPc' = "loop" /\ dpResult' = dpResult /\ dpIdx' = dpIdx + 1
    /\ UNCHANGED <<dpFrom, dpTo, dpMsg, dpCount, sVars, fVars, iVars, stVars>>

\* the loop of Data is over: Data returns nil
DPDataReturn ==
    /\ dpPc = "loop"
    /\ dpIdx > Len(dpTo)
    /\ dpPc' = "done"
    /\ dpResult' = "nil"
    /\ UNCHANGED <<dpFrom, dpTo, dpMsg, dpIdx, dpLog, dpSent, dpCount, mailboxes, sVars, fVars, iVars, stVars>>

\* PuntoConsegnaSession.Reset
DPReset ==
    /\ dpPc = "done"
    /\ dpFrom' = NoAddr
    /\ dpTo' = <<>>
    /\ dpPc' = "idle"
    /\ UNCHANGED <<dpMsg, dpIdx, dpLog, dpSent, dpResult, dpCount, mailboxes, sVars, fVars, iVars, stVars>>

-----------------------------------------------------------------------------
(* Messages given to the SMTP session of the Access Point and of the       *)
(* Reception Point                                                         *)

\* the result of Header.AddressList: absent header = no error, no address
Absent      == [err |-> FALSE, list |-> <<>>]
Unparsable  == [err |-> TRUE,  list |-> <<>>]
Addrs(l)    == [err |-> FALSE, list |-> l]

\* Header.Get of an address header is "" exactly when the header is absent
RawEmpty(al) == ~al.err /\ al.list = <<>>

\* the fields every message of the model has; ok = FALSE is a message the
\* MIME reader (mail.CreateReader, NextPart) cannot parse
BlankMessage ==
    [ ok |-> TRUE, smime |-> "none", sig |-> "none", signer |-> "none",
      xTrasporto |-> "", xRicevuta |-> "", date |-> "ok", subject |-> "Test",
      from |-> Addrs(<<AddrA>>), to |-> Addrs(<<AddrB>>), cc |-> Absent, bcc |-> Absent,
      replyTo |-> "", msgId |-> "<m1@x>", xRiferimentoMessageID |-> "",
      xTipoRicevuta |-> "", xmlTipo |-> "none", received |-> <<>>, returnPath |-> "" ]

Unreadable == [BlankMessage EXCEPT !.ok = FALSE]

\* the messages a client submits to the Access Point
APMessages ==
    { Unreadable } \cup
    { [BlankMessage EXCEPT !.from = f, !.to = t, !.cc = c, !.bcc = b, !.msgId = i] :
        f \in {Absent, Unparsable, Addrs(<<AddrA>>), Addrs(<<AddrA, AddrB>>)},
        t \in {Absent, Addrs(<<AddrB>>), Addrs(<<AddrB, AddrC>>)},
        c \in {Absent, Unparsable, Addrs(<<AddrC>>)},
        b \in {Absent, Unparsable, Addrs(<<AddrC>>)},
        i \in {"<m1@x>"} }

\* how a message is signed: not at all, detached (multipart/signed with an
\* application/pkcs7-signature part), or opaque (application/pkcs7-mime);
\* signer is the SHA-1 of the signing certificate
Signatures ==
    { [smime |-> "none",     sig |-> "none",  signer |-> "none"],
      [smime |-> "detached", sig |-> "valid", signer |-> "H1"],
      [smime |-> "opaque",   sig |-> "valid", signer |-> "H1"],
      [smime |-> "opaque",   sig |-> "valid", signer |-> "H9"] }

\* the PEC headers of an inbound, with the tipo of its daticert.xml
PecHeaders ==
    { [xTrasporto |-> "posta-certificata", xRicevuta |-> "", xmlTipo |-> "posta-certificata"],
      [xTrasporto |-> "", xRicevuta |-> "avvenuta-consegna", xmlTipo |-> "avvenuta-consegna"],
      [xTrasporto |-> "", xRicevuta |-> "avvenuta-consegna", xmlTipo |-> "accettazione"],
      [xTrasporto |-> "", xRicevuta |-> "errore-consegna", xmlTipo |-> "errore-consegna"],
      [xTrasporto |-> "", xRicevuta |-> "", xmlTipo |-> "none"] }

\* the messages a peer provider submits to the Reception Point
RPMessages ==
    { Unreadable } \cup
    { [BlankMessage EXCEPT !.smime = s.smime, !.sig = s.sig, !.signer = s.signer,
                           !.xTrasporto = p.xTrasporto, !.xRicevuta = p.xRicevuta,
                           !.xmlTipo = p.xmlTipo, !.date = d, !.from = f,
                           !.xRiferimentoMessageID = r] :
        s \in Signatures,
        p \in PecHeaders,
        d \in {"", "ok"},
        f \in {Absent, Addrs(<<AddrA>>)},
        r \in {"", "<m0@x>"} }

\* strings.Contains(value, sub) on the values the PEC headers take
Contains(value, sub) ==
    CASE sub = "accettazione"      -> value \in {"accettazione", "non-accettazione"}
      [] sub = "avvenuta-consegna" -> value = "avvenuta-consegna"
      [] sub = "errore-consegna"   -> value \in {"errore-consegna", "preavviso-errore-consegna"}
      [] sub = "posta-certificata" -> value = "posta-certificata"
      [] OTHER -> value = sub

\* extractPECHeaders of the parser: the PecType it reads off the headers; the
\* loop meets X-Ricevuta before X-Trasporto, so X-Trasporto has the last word
extractPECHeaders(msg) ==
    LET ricevuta ==
            IF msg.xRicevuta = "" THEN "None"
            ELSE IF Contains(msg.xRicevuta, "accettazione") THEN "AcceptanceReceipt"
            ELSE IF Contains(msg.xRicevuta, "avvenuta-consegna") THEN "DeliveryReceipt"
            ELSE IF Contains(msg.xRicevuta, "errore-consegna") THEN "DeliveryErrorReceipt"
            ELSE "None"
    IN  IF msg.xTrasporto # "" /\ Contains(msg.xTrasporto, "posta-certificata")
        THEN "CertifiedEmail"
        ELSE ricevuta

\* the cross-check of parsePec: the PecType disagrees with the tipo of the
\* daticert.xml
TipoMismatch(msg) ==
    \/ extractPECHeaders(msg) = "AcceptanceReceipt" /\ msg.xmlTipo # "accettazione"
    \/ extractPECHeaders(msg) = "DeliveryReceipt" /\ msg.xmlTipo # "avvenuta-consegna"
    \/ extractPECHeaders(msg) = "CertifiedEmail" /\ msg.xmlTipo # "posta-certificata"
    \/ extractPECHeaders(msg) = "DeliveryErrorReceipt" /\ msg.xmlTipo # "errore-consegna"

\* the Content-Type of a message signed that way
ContentType(msg) ==
    CASE msg.smime = "opaque"   -> "application/pkcs7-mime; smime-type=signed-data; name=\"smime.p7m\""
      [] msg.smime = "detached" -> "multipart/signed; protocol=\"application/pkcs7-signature\""
      [] OTHER                  -> "multipart/mixed"

\* strings.Contains(contentType, "application/pkcs7-mime") ||
\* strings.Contains(contentType, "smime.p7m")
ContainsPkcs7Mime(ct) ==
    ct = "application/pkcs7-mime; smime-type=signed-data; name=\"smime.p7m\""

-----------------------------------------------------------------------------
(* The signer *)

\* the Signer a server is built with: LoadSMIMECredentials gives a
\* certificate and a key of any type PKCS#8 can hold
ServerSigners == [cert : {"cert"}, key : {"rsa", "ed25519"}]

\* a signer that signs with whatever it holds
SignUnchecked(signer) == "ok"

\* Signer.SignEmail: "ok", or the error
SignEmail(signer) ==
    IF signer.cert = "nil" THEN "certificate is nil"
    ELSE IF signer.key = "nil" THEN "key is nil"
    ELSE IF signer.key \notin {"rsa", "ecdsa"} THEN "failed to add signer"
    ELSE "ok"

\* Signer.CreateSignedMimeMessageEntity: whether a signed entity is returned
CreateSignedMimeMessageEntity(signer) == SignEmail(signer) = "ok"

\* the strings of at most n characters of an alphabet
RECURSIVE StringsUpTo(_, _)
StringsUpTo(alphabet, n) ==
    IF n = 0 THEN {<<>>}
    ELSE StringsUpTo(alphabet, n - 1)
            \cup { Append(w, c) : w \in { v \in StringsUpTo(alphabet, n - 1) : Len(v) = n - 1 },
                                   c \in alphabet }

\* strings.HasSuffix(s, suffix)
HasSuffix(str, suffix) ==
    Len(str) >= Len(suffix)
        /\ SubSeq(str, Len(str) - Len(suffix) + 1, Len(str)) = suffix

\* a formatBase64 that ends every line, the last one too, with CRLF
RECURSIVE FormatEveryLine(_, _, _)
FormatEveryLine(data, i, lineLength) ==
    IF i >= Len(data) THEN <<>>
    ELSE LET end == IF i + lineLength > Len(data) THEN Len(data) ELSE i + lineLength
         IN  SubSeq(data, i + 1, end) \o <<"\r", "\n">>
                \o FormatEveryLine(data, i + lineLength, lineLength)
formatBase64Trailing(data, lineLength) == FormatEveryLine(data, 0, lineLength)

\* the loop of formatBase64 from the 0-based index i on
RECURSIVE FormatFrom(_, _, _)
FormatFrom(data, i, lineLength) ==
    IF i >= Len(data) THEN <<>>
    ELSE LET end == IF i + lineLength > Len(data) THEN Len(data) ELSE i + lineLength
         IN  SubSeq(data, i + 1, end)
                \o (IF end < Len(data) THEN <<"\r", "\n">> ELSE <<>>)
                \o FormatFrom(data, i + lineLength, lineLength)

\* formatBase64
formatBase64(data, lineLength) == FormatFrom(data, 0, lineLength)

\* the boundary line of CreateSignedMimeMessage, without its CRLF
Boundary == "------=_NextPart_000_0000_01234567.89ABCDEF"

\* Signer.CreateSignedMimeMessage: the bytes of the multipart/signed message,
\* or the error of SignEmail, with the bytes SignEmail was given. The
\* base64 of the signature is the one character p7s; a header line is one
\* byte
CreateSignedMimeMessage(signer, emailContent) ==
    LET signedDataB64 == <<"p7s">>
    IN  IF SignEmail(signer) # "ok"
        THEN [err |-> "failed to sign email", signed |-> emailContent, bytes |-> <<>>]
        ELSE [ err |-> "",
               signed |-> emailContent,
               bytes |->
                   <<"MIME-Version: 1.0", "\r", "\n">>
                   \o <<"Content-Type: multipart/signed", "\r", "\n">>
                   \o <<"\r", "\n">>
                   \o <<"This is an S/MIME signed message", "\r", "\n">>
                   \o <<"\r", "\n">>
                   \o <<Boundary, "\r", "\n">>
                   \o emailContent
                   \o (IF ~HasSuffix(emailContent, <<"\r", "\n">>) THEN <<"\r", "\n">> ELSE <<>>)
                   \o <<"\r", "\n">>
                   \o <<Boundary, "\r", "\n">>
                   \o <<"Content-Type: application/pkcs7-signature", "\r", "\n">>
                   \o <<"Content-Transfer-Encoding: base64", "\r", "\n">>
                   \o <<"Content-Disposition: attachment", "\r", "\n">>
                   \o <<"\r", "\n">>
                   \o formatBase64(signedDataB64, 76)
                   \o <<"\r", "\n">>
                   \o <<"closing boundary", "\r", "\n">> ]

-----------------------------------------------------------------------------
(* The in-memory message store *)

\* strings.Index(s, ch): the 0-based index of the first ch in s, or -1
Index(s, ch) ==
    IF \E i \in DOMAIN s : s[i] = ch
    THEN (CHOOSE i \in DOMAIN s : s[i] = ch /\ \A j \in 1..(i-1) : s[j] # ch) - 1
    ELSE -1

\* the key AddMessage files a message under: the part before the "@"
MailboxKey(username) ==
    IF Index(username, "@") > 0 THEN SubSeq(username, 1, Index(username, "@"))
    ELSE username

\* InMemoryStore.AddMessage: the store after the call
AddMessage(st, username, msg) ==
    LET to   == MailboxKey(username)
        old  == IF to \in DOMAIN st.messages THEN st.messages[to] ELSE <<>>
        uid  == IF to \in DOMAIN st.messages
                THEN (IF to \in DOMAIN st.nextUID THEN st.nextUID[to] ELSE 0)
                ELSE 1
        m    == [msg EXCEPT !.Uid = uid, !.SeqNum = Len(old) + 1,
                            !.Flags = IF "Recent" \in msg.Flags THEN msg.Flags
                                      ELSE msg.Flags \cup {"Recent"}]
    IN [ messages |-> (to :> Append(old, m)) @@ st.messages,
         nextUID  |-> (to :> uid + 1) @@ st.nextUID ]

\* InMemoryStore.GetMessages: the list filed under the name as it is given
GetMessages(st, username) ==
    IF username \in DOMAIN st.messages THEN st.messages[username] ELSE <<>>

\* the index of the first message of a list with the UID, or 0
IndexOfUid(msgs, uid) ==
    IF \E i \in DOMAIN msgs : msgs[i].Uid = uid
    THEN CHOOSE i \in DOMAIN msgs :
            msgs[i].Uid = uid /\ \A j \in 1..(i-1) : msgs[j].Uid # uid
    ELSE 0

\* append(msgs[:i], msgs[i+1:]...): the cells behind i move down by one
RemoveAt(msgs, i) ==
    [j \in 1..(Len(msgs) - 1) |-> IF j < i THEN msgs[j] ELSE msgs[j + 1]]

\* InMemoryStore.DeleteMessage: the store after the call
DeleteMessage(st, username, uid) ==
    IF IndexOfUid(GetMessages(st, username), uid) = 0 THEN st
    ELSE [st EXCEPT !.messages[username] =
            RemoveAt(st.messages[username], IndexOfUid(st.messages[username], uid))]

\* InMemoryStore.CreateUserWithPassword: the store after the call
CreateUserWithPassword(st, username) ==
    [st EXCEPT !.messages = (username :> <<>>) @@ st.messages]

\* ConvertToIMAPMessage: the imap.Message made of a receipt; only the
\* envelope (subject, from, to) of the entity is kept, and Body is a map
\* nothing is put into
ConvertToIMAPMessage(entity) ==
    [ Envelope |-> [Subject |-> entity.subject, From |-> entity.from, To |-> entity.to],
      Body |-> {}, Flags |-> {"Seen"}, Uid |-> 0, SeqNum |-> 0 ]

-----------------------------------------------------------------------------
(* Access Point *)

\* the lower-cased addresses of a list
LowerSet(list) == { ToLower(list[i]) : i \in DOMAIN list }

\* a validator that takes any From address of the list for the reverse path
ValidateLoose(smtpFrom, smtpRecipients, msg) ==
    IF msg.from.err \/ msg.from.list = <<>> \/ msg.to.err \/ msg.to.list = <<>>
    THEN "invalid or missing field" ELSE ""

\* ValidateEnvelopeAndHeaders: "" when the message passes, or the Reason of
\* the ValidationError
ValidateEnvelopeAndHeaders(smtpFrom, smtpRecipients, msg) ==
    LET ccAddrs == IF msg.cc.err THEN <<>> ELSE msg.cc.list
        validRecipients == LowerSet(msg.to.list) \cup LowerSet(ccAddrs)
    IN  IF msg.from.err \/ Len(msg.from.list) # 1
            THEN "invalid or missing 'From' field"
        ELSE IF msg.to.err \/ Len(msg.to.list) = 0
            THEN "missing or invalid 'To' field"
        ELSE IF ~msg.bcc.err /\ Len(msg.bcc.list) > 0
            THEN "'Bcc' field must not be present"
        ELSE IF ~EqualFold(smtpFrom, msg.from.list[1])
            THEN "reverse-path does not match From header"
        ELSE IF \E i \in DOMAIN smtpRecipients :
                    ToLower(smtpRecipients[i]) \notin validRecipients
            THEN "recipient not found in 'To' or 'Cc' fields"
        ELSE ""

\* the ValidationError ValidateEnvelopeAndHeaders returns: only Reason is set
ValidationError(reason) ==
    [Reason |-> reason, From |-> NoAddr, To |-> <<>>, Subject |-> "", MessageID |-> ""]

\* GenerateNonAcceptanceEmail: the signed receipt, or the error of the signer;
\* the headers it sets are X-Ricevuta, Date, Subject, From, To and
\* X-Riferimento-Message-ID: there is no X-Trasporto and no Message-ID
GenerateNonAcceptanceEmail(domain, validationError, signer) ==
    IF ~CreateSignedMimeMessageEntity(signer)
    THEN [err |-> "failed to create signed email"]
    ELSE [ err       |-> "",
           smime     |-> "detached",
           xTrasporto |-> "",
           xRicevuta |-> "non-accettazione",
           msgId     |-> "",
           subject   |-> <<"AVVISO DI NON ACCETTAZIONE", validationError.Subject>>,
           from      |-> ServiceAddr("posta-certificata", domain),
           to        |-> validationError.From,
           xRiferimentoMessageID |-> validationError.MessageID,
           reason    |-> validationError.Reason ]

\* CreatePECTransportEnvelope with FormatPECEnvelopeAsRFC2822: the transport
\* envelope built around a message
CreatePECTransportEnvelope(msg) ==
    [ xTrasporto |-> "posta-certificata",
      subject    |-> <<"POSTA CERTIFICATA", msg.subject>>,
      from       |-> msg.from.list,
      to         |-> msg.to.list,
      \* Header.Get("Received") is the first Received of the original
      received   |-> IF msg.received = <<>> THEN <<>> ELSE <<Head(msg.received)>>,
      cc         |-> msg.cc,
      returnPath |-> msg.returnPath,
      msgId      |-> msg.msgId,
      xRiferimentoMessageID |-> msg.xRiferimentoMessageID,
      xTipoRicevuta |-> msg.xTipoRicevuta,
      replyTo    |-> IF msg.replyTo = "" THEN <<"From", msg.from.list>> ELSE <<>>,
      original   |-> msg ]

\* ProcessPECMessage: the envelope it returns
ProcessPECMessage(msg) == CreatePECTransportEnvelope(msg)

\* AccessPointHandler on the session's data: what it returns, the store after
\* it, and what it hands to a next hop
AccessPointHandler(from, to, data, signer, st) ==
    LET msg    == Head(data)
        reason == ValidateEnvelopeAndHeaders(from, to, msg)
        rcpt   == GenerateNonAcceptanceEmail(<<"localhost">>, ValidationError(reason), signer)
    IN  IF ~msg.ok THEN [return |-> "parse error", store |-> st, forwarded |-> <<>>]
        ELSE IF reason # "" THEN
            IF rcpt.err # ""
            THEN [return |-> rcpt.err, store |-> st, forwarded |-> <<>>]
            ELSE [return |-> "validation failed",
                  store  |-> AddMessage(st, from, ConvertToIMAPMessage(rcpt)),
                  forwarded |-> <<>>]
        ELSE \* the envelope ProcessPECMessage(msg) is built and dropped
             [return |-> "nil", store |-> st, forwarded |-> <<>>]

-----------------------------------------------------------------------------
(* Reception Point *)

\* the package variable providerCertificateHashes: a map nothing is put into
providerCertificateHashes == {}

\* the roots IsValidTransportEnvelope verifies the signer against:
\* x509.NewCertPool(), to which nothing is added
roots == {}

\* the SHA-1 hashes of the certified providers' certificates, as the
\* authority registry holds them (AuthorityRegistry.GetByCertHash)
AuthorityRegistry == {"H1"}
GetByCertHash(hash) == hash \in AuthorityRegistry

\* the issuer of a signing certificate, by its hash
Issuer(hash) == IF hash = "none" THEN "none" ELSE "CA"

\* IsValidTransportEnvelope
IsValidTransportEnvelope(msg) ==
    /\ ContainsPkcs7Mime(ContentType(msg))         \* 1. S/MIME structure
    /\ msg.smime = "opaque"                        \* 2. pkcs7.Parse(body)
    /\ msg.signer # "none"                         \*    a signing certificate
    /\ msg.signer \in providerCertificateHashes    \* 3. certified provider
    /\ Issuer(msg.signer) \in roots                \* 4. signerCert.Verify
    /\ msg.sig = "valid"                           \*    p7.Verify
    /\ ~msg.from.err /\ ~msg.to.err                \* 5. formal correctness
    /\ msg.date # ""

\* IsValidReceiptOrAvviso
IsValidReceiptOrAvviso(msg) ==
    LET required == /\ msg.date # ""
                    /\ msg.subject # ""
                    /\ ~RawEmpty(msg.from)
                    /\ ~RawEmpty(msg.to)
                    /\ msg.xRiferimentoMessageID # ""
    IN  CASE msg.xRicevuta = "avvenuta-consegna" ->
                required /\ msg.xTipoRicevuta \in {"", "breve", "sintetica"}
          [] msg.xRicevuta = "errore-consegna" -> required
          [] OTHER -> FALSE

\* IsFromCertifiedProvider: a stub
IsFromCertifiedProvider(msg) == TRUE

\* common.IsSignatureValid: the answer of openssl smime -verify
IsSignatureValid(msg) == msg.sig = "valid"

\* ForwardToDeliveryPoint: the session's data posted to the Delivery Point
ForwardToDeliveryPoint(data, httpOK) ==
    IF httpOK
    THEN [err |-> FALSE, sent |-> <<[data |-> Len(data), sink |-> "http", kind |-> "inbound", payload |-> data]>>]
    ELSE [err |-> TRUE,  sent |-> <<>>]

\* ForwardEnvelopeToDeliveryPoint: an envelope sent by SMTP to the other
\* authority; n numbers the DATA command it is sent for
ForwardEnvelopeToDeliveryPoint(n, kind, envelope, smtpOK) ==
    IF smtpOK
    THEN [err |-> FALSE, sent |-> <<[data |-> n, sink |-> "smtp", kind |-> kind, payload |-> envelope]>>]
    ELSE [err |-> TRUE,  sent |-> <<>>]

\* the bytes EmitPresaInCaricoReceipt composes; origFrom[0] panics on an
\* empty list. receiptHeader is composed and never written: the bytes are
\* those of the multipart/mixed entity, whose header is mixedHeader
PresaInCaricoBody(msg) ==
    LET receiptHeader == [ xTrasporto |-> "", xRicevuta |-> "presa-in-carico",
                           from |-> ServiceAddr("posta-certificata", Domain),
                           msgId |-> "", xRiferimentoMessageID |-> msg.msgId ]
        mixedHeader   == [ xTrasporto |-> "", xRicevuta |-> "", from |-> NoAddr,
                           msgId |-> "", xRiferimentoMessageID |-> "" ]
    IN  IF msg.from.list = <<>> THEN [panic |-> TRUE]
        ELSE [ panic |-> FALSE, smime |-> "none",
               xTrasporto |-> mixedHeader.xTrasporto, xRicevuta |-> mixedHeader.xRicevuta,
               from |-> mixedHeader.from, msgId |-> mixedHeader.msgId,
               xRiferimentoMessageID |-> mixedHeader.xRiferimentoMessageID,
               mittente |-> msg.from.list[1], destinatari |-> msg.to.list,
               oggetto |-> msg.subject, identificativo |-> msg.msgId ]

\* EmitPresaInCaricoReceipt
EmitPresaInCaricoReceipt(data, smtpOK) ==
    LET body == PresaInCaricoBody(Head(data))
        fwd  == ForwardEnvelopeToDeliveryPoint(Len(data), "presa-in-carico", body, smtpOK)
    IN  IF body.panic THEN [err |-> FALSE, panic |-> TRUE, sent |-> <<>>]
        ELSE [err |-> fwd.err, panic |-> FALSE, sent |-> fwd.sent]

\* CreateAnomalyEnvelope: the bytes it returns, the original attached;
\* origFrom[0] panics on an empty list. anomalyHeader is composed and never
\* written: the bytes are those of the multipart/mixed entity, whose header
\* is mixedHeader
CreateAnomalyEnvelope(data) ==
    LET msg == Head(data)
        anomalyHeader == [ xTrasporto |-> "errore", xRicevuta |-> "",
                           from |-> ServiceAddr("posta-certificata", Domain),
                           msgId |-> msg.msgId ]
        mixedHeader   == [ xTrasporto |-> "", xRicevuta |-> "", from |-> NoAddr,
                           msgId |-> "" ]
    IN  IF msg.from.list = <<>> THEN [panic |-> TRUE]
        ELSE [ panic |-> FALSE, smime |-> "none",
               xTrasporto |-> mixedHeader.xTrasporto, xRicevuta |-> mixedHeader.xRicevuta,
               from |-> mixedHeader.from, msgId |-> mixedHeader.msgId,
               mittente |-> msg.from.list[1], destinatari |-> msg.to.list,
               oggetto |-> msg.subject, errore |-> "Errore di validazione PEC",
               attachment |-> data ]

\* the last branches of ReceptionPointHandler: wrap and forward
ForwardAnomaly(data, smtpOK) ==
    LET anomalyEnvelope == CreateAnomalyEnvelope(data)
        fwd == ForwardEnvelopeToDeliveryPoint(Len(data), "anomaly", anomalyEnvelope, smtpOK)
    IN  IF anomalyEnvelope.panic THEN [return |-> "panic", sent |-> <<>>]
        ELSE IF fwd.err THEN [return |-> "failed to forward anomaly envelope", sent |-> <<>>]
        ELSE [return |-> "nil", sent |-> fwd.sent]

\* ReceptionPointHandler on the session's data: what it returns and what it
\* hands to the sinks
ReceptionPointHandler(data, httpOK, smtpOK) ==
    LET msg     == Head(data)
        receipt == EmitPresaInCaricoReceipt(data, smtpOK)
        fwd     == ForwardToDeliveryPoint(data, httpOK)
    IN  IF ~msg.ok THEN [return |-> "failed to parse incoming message", sent |-> <<>>]
        ELSE IF IsValidTransportEnvelope(msg) THEN
            IF receipt.panic THEN [return |-> "panic", sent |-> <<>>]
            ELSE IF receipt.err THEN [return |-> "failed to emit presa in carico", sent |-> <<>>]
            ELSE IF fwd.err THEN [return |-> "failed to forward to delivery point",
                                  sent |-> receipt.sent]
            ELSE [return |-> "nil", sent |-> receipt.sent \o fwd.sent]
        ELSE IF IsValidReceiptOrAvviso(msg) THEN
            IF fwd.err THEN [return |-> "failed to forward receipt/avviso", sent |-> <<>>]
            ELSE [return |-> "nil", sent |-> fwd.sent]
        ELSE IF IsFromCertifiedProvider(msg) /\ IsSignatureValid(msg)
             THEN ForwardAnomaly(data, smtpOK)
        ELSE ForwardAnomaly(data, smtpOK)

-----------------------------------------------------------------------------
(* The SMTP session of the Access Point and of the Reception Point *)

\* Session.Auth: the PLAIN callback
Auth(username, password) ==
    /\ sPc = "open"
    /\ sAuth' = (IF username # "username" \/ password # "password" THEN sAuth ELSE TRUE)
    /\ UNCHANGED <<sFrom, sTo, sData, sReplies, sPc, sent, sStore, sSigner, sHandler, dpVars, fVars, iVars, stVars>>

\* a Mail that does not look at Session.auth
MailUnchecked(from) ==
    /\ sPc = "open"
    /\ sFrom' = from
    /\ UNCHANGED <<sAuth, sTo, sData, sReplies, sPc, sent, sStore, sSigner, sHandler, dpVars, fVars, iVars, stVars>>

\* Session.Mail
Mail(from) ==
    /\ sPc = "open"
    /\ sAuth
    /\ sFrom' = from
    /\ UNCHANGED <<sAuth, sTo, sData, sReplies, sPc, sent, sStore, sSigner, sHandler, dpVars, fVars, iVars, stVars>>

\* Session.Rcpt
Rcpt(to) ==
    /\ sPc = "open"
    /\ sAuth
    /\ Len(sTo) < MaxRcpt
    /\ sTo' = Append(sTo, to)
    /\ UNCHANGED <<sAuth, sFrom, sData, sReplies, sPc, sent, sStore, sSigner, sHandler, dpVars, fVars, iVars, stVars>>

\* the handler the Backend gives the session, run on the session
RunHandler(h, from, to, data, sgn, st, httpOK, smtpOK) ==
    IF h = "AccessPointHandler"
    THEN LET r == AccessPointHandler(from, to, data, sgn, st)
         IN [return |-> r.return, store |-> r.store, sent |-> r.forwarded]
    ELSE LET r == ReceptionPointHandler(data, httpOK, smtpOK)
         IN [return |-> r.return, store |-> st, sent |-> r.sent]

\* Session.Data: the bytes are appended to the session's buffer and the
\* handler runs; a panic of the handler closes the connection.  The SMTP
\* server takes DATA only after MAIL and RCPT were accepted, and calls Reset,
\* which changes nothing, when DATA is over.  limit bounds the DATA commands
\* of the session.
DataWithin(limit, msg, httpOK, smtpOK) ==
    /\ sPc = "open"
    /\ Len(sReplies) < limit
    /\ sAuth => sFrom # NoAddr /\ sTo # <<>>
    /\ IF ~sAuth
       THEN /\ sReplies' = Append(sReplies, "auth required")
            /\ UNCHANGED <<sData, sPc, sent, sStore>>
       ELSE LET data == Append(sData, msg)
                r == RunHandler(sHandler, sFrom, sTo, data, sSigner, sStore, httpOK, smtpOK)
            IN /\ sData' = data
               /\ sReplies' = Append(sReplies, r.return)
               /\ sent' = sent \o r.sent
               /\ sStore' = r.store
               /\ sPc' = IF r.return = "panic" THEN "closed" ELSE "open"
    /\ UNCHANGED <<sAuth, sFrom, sTo, sSigner, sHandler, dpVars, fVars, iVars, stVars>>

-----------------------------------------------------------------------------
(* IMAP IDLE: IMAPUser.GetMailbox, IMAPMailbox.ListenUpdates, NotifyUpdate,
   StopListenUpdates and the store's notifier *)

Listeners == 1..MaxListeners

Mailboxes == 1..MaxMailboxes

\* a listener that has not called ListenUpdates yet; box is the mailbox
\* object it listens on, registered says updateCh is in idleClients
NoListener ==
    [box |-> 0, registered |-> FALSE, closed |-> FALSE, stopped |-> FALSE,
     updateCh |-> 0, hand |-> 0, ch |-> 0]

\* StopListenUpdates is not running
NoStop == [box |-> 0, at |-> 0]

\* the listeners whose updateCh is in idleClients of the mailbox object
ClientsOf(b) == { l \in Listeners : idle[l].box = b /\ idle[l].registered }

\* IMAPUser.GetMailbox: makes a new IMAPMailbox and registers its
\* NotifyUpdate as the notifier of the user, in place of the one before
GetMailbox ==
    /\ ~crashed
    /\ opened < MaxMailboxes
    /\ opened' = opened + 1
    /\ notifier' = opened + 1
    /\ UNCHANGED <<idle, appended, notifying, locked, stop, crashed, dpVars, sVars, fVars, stVars>>

\* ListenUpdates: makes ch and updateCh, both with a buffer of one, registers
\* updateCh in idleClients under idleMutex and starts the goroutine that
\* forwards to ch
ListenUpdates(l, b) ==
    /\ ~crashed
    /\ idle[l].box = 0
    /\ b \in 1..opened
    /\ b \notin locked
    /\ idle' = [idle EXCEPT ![l].box = b, ![l].registered = TRUE]
    /\ UNCHANGED <<appended, notifying, opened, notifier, locked, stop, crashed, dpVars, sVars, fVars, stVars>>

\* InMemoryStore.AddMessage: appends the message and starts the notifier of
\* the user, if there is one, in a goroutine of its own, then returns
StoreAddMessage ==
    /\ ~crashed
    /\ appended < MaxAppend
    /\ appended' = appended + 1
    /\ notifying' = IF notifier = 0 THEN notifying
                    ELSE [notifying EXCEPT ![notifier] = @ + 1]
    /\ UNCHANGED <<idle, opened, notifier, locked, stop, crashed, dpVars, sVars, fVars, stVars>>

\* NotifyUpdate, started by the store: takes idleMutex of its mailbox object
NotifyUpdateLock(b) ==
    /\ ~crashed
    /\ notifying[b] > 0
    /\ b \notin locked
    /\ notifying' = [notifying EXCEPT ![b] = @ - 1]
    /\ locked' = locked \cup {b}
    /\ UNCHANGED <<idle, appended, opened, notifier, stop, crashed, dpVars, sVars, fVars, stVars>>

\* NotifyUpdate under idleMutex: a send to every updateCh in idleClients that
\* falls to the default branch when the buffer is full; a send on a closed
\* channel panics
NotifyUpdate(b) ==
    /\ ~crashed
    /\ b \in locked
    /\ IF \E l \in ClientsOf(b) : idle[l].closed
       THEN crashed' = TRUE /\ UNCHANGED <<idle, locked>>
       ELSE /\ idle' = [l \in Listeners |->
                          IF l \in ClientsOf(b) /\ idle[l].updateCh = 0
                          THEN [idle[l] EXCEPT !.updateCh = 1]
                          ELSE idle[l]]
            /\ locked' = locked \ {b}
            /\ crashed' = crashed
    /\ UNCHANGED <<appended, notifying, opened, notifier, stop, dpVars, sVars, fVars, stVars>>

\* the goroutine of ListenUpdates: "for range updateCh" receives a signal
ForwardReceive(l) ==
    /\ ~crashed
    /\ idle[l].box # 0
    /\ idle[l].updateCh = 1
    /\ idle[l].hand = 0
    /\ idle' = [idle EXCEPT ![l].updateCh = 0, ![l].hand = 1]
    /\ UNCHANGED <<appended, notifying, opened, notifier, locked, stop, crashed, dpVars, sVars, fVars, stVars>>

\* the goroutine of ListenUpdates: "ch <- update" once ch has room
ForwardSend(l) ==
    /\ ~crashed
    /\ idle[l].hand = 1
    /\ idle[l].ch = 0
    /\ idle' = [idle EXCEPT ![l].hand = 0, ![l].ch = 1]
    /\ UNCHANGED <<appended, notifying, opened, notifier, locked, stop, crashed, dpVars, sVars, fVars, stVars>>

\* the IDLE command of the listener reads the channel ListenUpdates returned
ReadUpdate(l) ==
    /\ ~crashed
    /\ idle[l].ch = 1
    /\ idle' = [idle EXCEPT ![l].ch = 0]
    /\ UNCHANGED <<appended, notifying, opened, notifier, locked, stop, crashed, dpVars, sVars, fVars, stVars>>

\* StopListenUpdates called by a listener: enters the loop over idleClients
\* of its mailbox object, without idleMutex
StopListenUpdates(l) ==
    /\ ~crashed
    /\ idle[l].box # 0
    /\ ~idle[l].stopped
    /\ stop = NoStop
    /\ idle' = [idle EXCEPT ![l].stopped = TRUE]
    /\ stop' = IF ClientsOf(idle[l].box) = {} THEN NoStop
               ELSE [box |-> idle[l].box, at |-> 0]
    /\ UNCHANGED <<appended, notifying, opened, notifier, locked, crashed, dpVars, sVars, fVars, stVars>>

\* the loop of StopListenUpdates: close(c) for the next channel of the map
StopClose(l) ==
    /\ ~crashed
    /\ stop.box # 0
    /\ stop.at = 0
    /\ l \in ClientsOf(stop.box)
    /\ idle' = [idle EXCEPT ![l].closed = TRUE]
    /\ stop' = [stop EXCEPT !.at = l]
    /\ UNCHANGED <<appended, notifying, opened, notifier, locked, crashed, dpVars, sVars, fVars, stVars>>

\* the loop of StopListenUpdates: delete(m.idleClients, c), and the return
\* when the map is empty
StopDelete ==
    /\ ~crashed
    /\ stop.at # 0
    /\ idle' = [idle EXCEPT ![stop.at].registered = FALSE]
    /\ stop' = IF ClientsOf(stop.box) = {stop.at} THEN NoStop
               ELSE [stop EXCEPT !.at = 0]
    /\ UNCHANGED <<appended, notifying, opened, notifier, locked, crashed, dpVars, sVars, fVars, stVars>>

-----------------------------------------------------------------------------
(* The InMemoryStore called on its own: its lists are Go slices, so a list
   GetMessages returned shares the array of the mailbox until append moves
   the mailbox to a larger array *)

\* the names the store is called with
StoreUsers == { <<"a">>, <<"a", "@", "x">> }

\* the messages given to AddMessage
StoreMessages ==
    { [ Envelope |-> [Subject |-> sub, From |-> AddrA, To |-> <<AddrB>>],
        Body |-> {}, Flags |-> {"Seen"}, Uid |-> 0, SeqNum |-> 0 ] : sub \in {"s1", "s2"} }

\* a mailbox that has no array yet
NoArray == [arr |-> <<>>, cap |-> 0]

\* no list is held by a reader
NoList == [taken |-> FALSE, key |-> <<>>, list |-> <<>>, shared |-> FALSE]

ArrayOf(key) == IF key \in DOMAIN backing THEN backing[key] ELSE NoArray

\* the list a reader holds when the array of the mailbox key became b:
\* it sees the new cells while it shares the array
HeldAfter(key, b, moved) ==
    IF held.taken /\ held.shared /\ held.key = key
    THEN IF moved THEN [held EXCEPT !.shared = FALSE]
         ELSE [held EXCEPT !.list = SubSeq(b.arr, 1, Len(held.list))]
    ELSE held

\* InMemoryStore.AddMessage: append writes behind the list when the array
\* has room, and copies the list to an array of twice the cap when not
CallAddMessage(username, msg) ==
    LET to    == MailboxKey(username)
        n     == Len(GetMessages(sStore, to))
        st    == AddMessage(sStore, username, msg)
        m     == st.messages[to][n + 1]
        b     == ArrayOf(to)
        moved == to \notin DOMAIN sStore.messages \/ n >= b.cap
        nb    == IF moved
                 THEN [arr |-> st.messages[to], cap |-> IF b.cap = 0 THEN 1 ELSE 2 * b.cap]
                 ELSE [b EXCEPT !.arr = IF n + 1 <= Len(b.arr)
                                        THEN [b.arr EXCEPT ![n + 1] = m]
                                        ELSE Append(b.arr, m)]
    IN /\ n < MaxBox
       /\ m.Uid <= MaxUid
       /\ sStore' = st
       /\ backing' = (to :> nb) @@ backing
       /\ held' = HeldAfter(to, nb, moved)
       /\ libCall' = [fn |-> "AddMessage", in |-> username, out |-> m]
       /\ UNCHANGED <<passwordHash, sAuth, sFrom, sTo, sData, sReplies, sPc, sent,
                      sSigner, sHandler, dpVars, clock, generated, iVars>>

\* InMemoryStore.GetMessages: returns the slice of the mailbox itself
CallGetMessages(username) ==
    /\ held' = [taken |-> TRUE, key |-> username,
                list |-> GetMessages(sStore, username),
                shared |-> username \in DOMAIN sStore.messages]
    /\ libCall' = [fn |-> "GetMessages", in |-> username,
                   out |-> GetMessages(sStore, username)]
    /\ UNCHANGED <<backing, passwordHash, dpVars, sVars, clock, generated, iVars>>

\* InMemoryStore.DeleteMessage: the cells behind the message move down by
\* one in the array of the mailbox
CallDeleteMessage(username, uid) ==
    LET msgs == GetMessages(sStore, username)
        i    == IndexOfUid(msgs, uid)
        b    == ArrayOf(username)
        nb   == IF i = 0 THEN b
                ELSE [b EXCEPT !.arr = [j \in 1..Len(b.arr) |->
                         IF i <= j /\ j < Len(msgs) THEN b.arr[j + 1] ELSE b.arr[j]]]
    IN /\ sStore' = DeleteMessage(sStore, username, uid)
       /\ backing' = IF i = 0 THEN backing ELSE (username :> nb) @@ backing
       /\ held' = IF i = 0 THEN held ELSE HeldAfter(username, nb, FALSE)
       /\ libCall' = [fn |-> "DeleteMessage", in |-> username, out |-> uid]
       /\ UNCHANGED <<passwordHash, sAuth, sFrom, sTo, sData, sReplies, sPc, sent,
                      sSigner, sHandler, dpVars, clock, generated, iVars>>

\* InMemoryStore.CreateUserWithPassword: files the hash and a new empty list
CallCreateUserWithPassword(username) ==
    /\ sStore' = CreateUserWithPassword(sStore, username)
    /\ passwordHash' = passwordHash \cup {username}
    /\ backing' = (username :> NoArray) @@ backing
    /\ held' = HeldAfter(username, NoArray, TRUE)
    /\ libCall' = [fn |-> "CreateUserWithPassword", in |-> username, out |-> ""]
    /\ UNCHANGED <<sAuth, sFrom, sTo, sData, sReplies, sPc, sent,
                   sSigner, sHandler, dpVars, clock, generated, iVars>>

\* Session.Data in the servers
Data(msg, httpOK, smtpOK) == DataWithin(MaxSessionData, msg, httpOK, smtpOK)

\* a server after construction, with the first session of a client open:
\* h is the handler its Backend gives the sessions
ServerInit(h) ==
    /\ dpFrom = NoAddr
    /\ dpTo = <<>>
    /\ dpPc = "idle"
    /\ dpMsg = NoMessage
    /\ dpIdx = 1
    /\ dpLog = <<>>
    /\ dpSent = <<>>
    /\ dpResult = "none"
    /\ dpCount = 0
    /\ mailboxes = [a \in DPRecipients |-> NoMailbox]
    /\ sAuth = FALSE
    /\ sFrom = NoAddr
    /\ sTo = <<>>
    /\ sData = <<>>
    /\ sReplies = <<>>
    /\ sPc = "open"
    /\ sent = <<>>
    /\ sStore = [messages |-> <<>>, nextUID |-> <<>>]
    /\ sSigner \in ServerSigners
    /\ sHandler = h
    /\ clock = 0
    /\ generated = <<>>
    /\ libCall = [fn |-> "none"]
    /\ idle = [l \in Listeners |-> NoListener]
    /\ appended = 0
    /\ notifying = [b \in Mailboxes |-> 0]
    /\ opened = 0
    /\ notifier = 0
    /\ locked = {}
    /\ stop = NoStop
    /\ crashed = FALSE
    /\ backing = <<>>
    /\ held = NoList
    /\ passwordHash = {}

-----------------------------------------------------------------------------
(* The receipt factory and the parser, called on their own *)

\* the Message-IDs and senders the factory is called with
FactoryMessageIDs == {"<m1@x>", "<m2@x>"}
FactorySenders == {AddrA, AddrB, AddrC}

\* GenerateAcceptanceEmail called at time now: the signed receipt, or the
\* error of the signer. generatedMessageID is formatted from now and the
\* domain, and goes into the text and the XML, never into a header
GenerateAcceptanceEmail(now, domain, messageID, from, signer) ==
    LET generatedMessageID == [prefix |-> "opec", time |-> now, domain |-> domain]
    IN  IF ~CreateSignedMimeMessageEntity(signer)
        THEN [err |-> "failed to create signed email"]
        ELSE [ err       |-> "",
               smime     |-> "detached",
               xTrasporto |-> "",
               xRicevuta |-> "accettazione",
               msgId     |-> "",
               subject   |-> <<"ACCETTAZIONE", "Test">>,
               from      |-> ServiceAddr("posta-certificata", domain),
               to        |-> from,
               xRiferimentoMessageID |-> messageID,
               identificativo |-> generatedMessageID,
               xmlTipo   |-> "accettazione" ]

\* time.Now() moves on by one unit of the resolution of the format
Tick ==
    /\ clock < MaxClock
    /\ clock' = clock + 1
    /\ UNCHANGED <<dpVars, sVars, generated, libCall, iVars, stVars>>

\* one call of GenerateAcceptanceEmail
CallGenerateAcceptanceEmail(messageID, from) ==
    /\ Len(generated) < MaxGenerated
    /\ generated' = Append(generated,
                           GenerateAcceptanceEmail(clock, Domain, messageID, from, sSigner))
    /\ UNCHANGED <<dpVars, sVars, clock, libCall, iVars, stVars>>

\* the X-Trasporto and X-Ricevuta values the classifier is given
XTrasportoValues == {"", "posta-certificata", "Posta-Certificata", "errore"}
XRicevutaValues ==
    {"", "accettazione", "non-accettazione", "avvenuta-consegna", "errore-consegna",
     "presa-in-carico"}

\* the parts of a multipart/signed body: a multipart/mixed part whose
\* daticert is "none" (no application/xml part in it), "malformed" (the XML
\* does not parse) or the tipo of the XML; and the signature part
MixedParts ==
    { [mediaType |-> "multipart/mixed", daticert |-> d] :
        d \in {"none", "malformed", "accettazione", "avvenuta-consegna",
               "errore-consegna", "posta-certificata"} }
SignaturePart == [mediaType |-> "application/pkcs7-signature", daticert |-> "none"]

\* the bodies the parser is given; closed = FALSE is a body that ends without
\* its closing boundary, on which NextPart returns an error that is not io.EOF
ParserBodies ==
    { [parts |-> p, closed |-> c] :
        p \in {<<>>, <<SignaturePart>>} \cup { <<m>> : m \in MixedParts }
                \cup { <<m, SignaturePart>> : m \in MixedParts },
        c \in BOOLEAN }

\* the messages the parser is given; contentType "" does not parse as a media
\* type
ParserMessages ==
    { [contentType |-> ct, xTrasporto |-> t, xRicevuta |-> r, body |-> b] :
        ct \in {"", "text/plain", "multipart/signed"},
        t \in {"", "posta-certificata"},
        r \in {"", "accettazione", "avvenuta-consegna", "errore-consegna"},
        b \in ParserBodies }

\* a nil *DatiCert, the zero DatiCert, and the one parsed from an XML
NilDatiCert == [nil |-> TRUE, Tipo |-> ""]
ZeroDatiCert == [nil |-> FALSE, Tipo |-> ""]

\* a nil *PECMail and the zero PECMail
NilPECMail == [nil |-> TRUE, PecType |-> "None"]
ZeroPECMail == [nil |-> FALSE, PecType |-> "None"]

\* parseMixedPart: the DatiCert of the first application/xml part, nil when
\* there is none or when it does not parse
parseMixedPart(part) ==
    IF part.daticert \in {"none", "malformed"} THEN NilDatiCert
    ELSE [nil |-> FALSE, Tipo |-> part.daticert]

\* the loop of parsePec over the parts that are left, and what follows it
RECURSIVE ReadParts(_, _, _, _)
ReadParts(parts, closed, pecMail, datiCert) ==
    IF parts = <<>> THEN
        IF ~closed
        THEN [pecMail |-> pecMail, datiCert |-> datiCert, err |-> ""]
        ELSE IF \/ pecMail.PecType = "AcceptanceReceipt" /\ datiCert.Tipo # "accettazione"
                \/ pecMail.PecType = "DeliveryReceipt" /\ datiCert.Tipo # "avvenuta-consegna"
                \/ pecMail.PecType = "CertifiedEmail" /\ datiCert.Tipo # "posta-certificata"
                \/ pecMail.PecType = "DeliveryErrorReceipt" /\ datiCert.Tipo # "errore-consegna"
        THEN [pecMail |-> NilPECMail, datiCert |-> NilDatiCert,
              err |-> "mismatch between PEC type and DatiCert type"]
        ELSE [pecMail |-> pecMail, datiCert |-> datiCert, err |-> ""]
    ELSE IF Head(parts).mediaType = "multipart/mixed" THEN
        IF parseMixedPart(Head(parts)).nil
        THEN [pecMail |-> NilPECMail, datiCert |-> NilDatiCert,
              err |-> "failed to parse mixed part"]
        ELSE ReadParts(Tail(parts), closed, pecMail, parseMixedPart(Head(parts)))
    ELSE ReadParts(Tail(parts), closed, pecMail, datiCert)

\* parsePec: the PECMail, the DatiCert and the error it returns
parsePec(msg) ==
    IF msg.contentType = ""
    THEN [pecMail |-> ZeroPECMail, datiCert |-> ZeroDatiCert, err |-> "mime: no media type"]
    ELSE IF msg.contentType # "multipart/signed"
    THEN [pecMail |-> ZeroPECMail, datiCert |-> ZeroDatiCert, err |-> ""]
    ELSE IF extractPECHeaders(msg) = "None"
    THEN [pecMail |-> NilPECMail, datiCert |-> NilDatiCert, err |-> "not a pec"]
    ELSE ReadParts(msg.body.parts, msg.body.closed,
                   [nil |-> FALSE, PecType |-> extractPECHeaders(msg)], ZeroDatiCert)

\* one call of extractPECHeaders
CallExtractPECHeaders(t, r) ==
    /\ libCall' = [ fn |-> "extractPECHeaders",
                    in |-> [xTrasporto |-> t, xRicevuta |-> r],
                    out |-> extractPECHeaders([xTrasporto |-> t, xRicevuta |-> r]) ]
    /\ UNCHANGED <<dpVars, sVars, clock, generated, iVars, stVars>>

\* one call of parsePec
CallParsePec(msg) ==
    /\ libCall' = [fn |-> "parsePec", in |-> msg, out |-> parsePec(msg)]
    /\ UNCHANGED <<dpVars, sVars, clock, generated, iVars, stVars>>

\* the transport envelopes a delivery receipt is made for, and the recipients
ReceiptOriginals ==
    [ ok : {TRUE},
      xTrasporto : {"posta-certificata"},
      xRicevuta : {""},
      from : {AddrA},
      to : {<<>>, <<AddrB>>, <<AddrBUp>>, <<AddrB, AddrC>>},
      cc : {<<>>, <<AddrC>>, <<AddrB>>},
      msgId : {"<m1@x>"},
      subject : {"Test"},
      xTipoRicevuta : {"", "breve", "BREVE", " breve", "sintetica", "completa"} ]

\* one call of createDeliveryReceipt
CallCreateDeliveryReceipt(originalMsg, recipient) ==
    /\ libCall' = [ fn |-> "createDeliveryReceipt",
                    in |-> [originalMsg |-> originalMsg, recipient |-> recipient],
                    out |-> createDeliveryReceipt(originalMsg, recipient) ]
    /\ UNCHANGED <<dpVars, sVars, clock, generated, iVars, stVars>>

\* the payloads given to the Signer
Payloads == StringsUpTo({"a", "\r", "\n"}, MaxPayload)

\* one call of CreateSignedMimeMessage
CallCreateSignedMimeMessage(emailContent) ==
    /\ libCall' = [ fn |-> "CreateSignedMimeMessage",
                    in |-> emailContent,
                    out |-> CreateSignedMimeMessage(sSigner, emailContent) ]
    /\ UNCHANGED <<dpVars, sVars, clock, generated, iVars, stVars>>

\* one call of formatBase64
CallFormatBase64(data, lineLength) ==
    /\ libCall' = [ fn |-> "formatBase64",
                    in |-> [data |-> data, lineLength |-> lineLength],
                    out |-> formatBase64(data, lineLength) ]
    /\ UNCHANGED <<dpVars, sVars, clock, generated, iVars, stVars>>

\* the original messages a transport envelope is built around
EnvelopeOriginals ==
    { [BlankMessage EXCEPT !.received = rc, !.replyTo = rt, !.cc = c, !.returnPath = rp,
                           !.xTipoRicevuta = t, !.xRiferimentoMessageID = x] :
        rc \in {<<>>, <<"r1">>, <<"r1", "r2">>},
        rt \in {"", "c@x"},
        c \in {Absent, Addrs(<<AddrC>>)},
        rp \in {"", "a@x"},
        t \in {"", "breve"},
        x \in {"", "<m0@x>"} }

\* one call of CreatePECTransportEnvelope
CallCreatePECTransportEnvelope(originalMsg) ==
    /\ libCall' = [ fn |-> "CreatePECTransportEnvelope",
                    in |-> originalMsg,
                    out |-> CreatePECTransportEnvelope(originalMsg) ]
    /\ UNCHANGED <<dpVars, sVars, clock, generated, iVars, stVars>>

-----------------------------------------------------------------------------
(* The servers and the libraries *)

DPNext ==
    \/ \E r \in DPRecipients, av \in BOOLEAN : RegisterMailbox(r, av)
    \/ \E f \in {AddrA} : DPMail(f)
    \/ \E t \in DPRecipients : DPRcpt(t)
    \/ \E m \in DPMessages : DPData(m)
    \/ \E mailboxOK \in BOOLEAN, sendOK \in BOOLEAN : DPProcessRecipient(mailboxOK, sendOK)
    \/ DPDataReturn
    \/ DPReset

\* the Delivery Point server
SpecDP == ServerInit("none") /\ [][DPNext]_vars

APNext ==
    \/ \E u \in {"username", "mallory"}, p \in {"password", "guess"} : Auth(u, p)
    \/ \E f \in {AddrA, AddrAUp, AddrB} : Mail(f)
    \/ \E t \in {AddrB, AddrBUp, AddrC} : Rcpt(t)
    \/ \E m \in APMessages, httpOK \in BOOLEAN, smtpOK \in BOOLEAN : Data(m, httpOK, smtpOK)

\* the Access Point server
SpecAP == ServerInit("AccessPointHandler") /\ [][APNext]_vars

RPNext ==
    \/ \E u \in {"username", "mallory"}, p \in {"password", "guess"} : Auth(u, p)
    \/ \E f \in {AddrA} : Mail(f)
    \/ \E t \in {AddrB} : Rcpt(t)
    \/ \E m \in RPMessages, httpOK \in BOOLEAN, smtpOK \in BOOLEAN : Data(m, httpOK, smtpOK)

\* the Reception Point server
SpecRP == ServerInit("ReceptionPointHandler") /\ [][RPNext]_vars

FactoryNext ==
    \/ Tick
    \/ \E messageID \in FactoryMessageIDs, from \in FactorySenders :
            CallGenerateAcceptanceEmail(messageID, from)

SpecFactory == ServerInit("none") /\ [][FactoryNext]_vars

ParserNext ==
    \/ \E t \in XTrasportoValues, r \in XRicevutaValues : CallExtractPECHeaders(t, r)
    \/ \E msg \in ParserMessages : CallParsePec(msg)

SpecParser == ServerInit("none") /\ [][ParserNext]_vars

ReceiptNext ==
    \E originalMsg \in ReceiptOriginals, recipient \in DPRecipients :
        CallCreateDeliveryReceipt(originalMsg, recipient)

SpecReceipt == ServerInit("none") /\ [][ReceiptNext]_vars

SignerNext ==
    \/ \E emailContent \in Payloads : CallCreateSignedMimeMessage(emailContent)
    \/ \E data \in StringsUpTo({"A", "B"}, MaxB64), lineLength \in 1..MaxLine :
            CallFormatBase64(data, lineLength)

SpecSigner == ServerInit("none") /\ [][SignerNext]_vars

EnvelopeNext ==
    \E originalMsg \in EnvelopeOriginals : CallCreatePECTransportEnvelope(originalMsg)

SpecEnvelope == ServerInit("none") /\ [][EnvelopeNext]_vars

\* the messages a client submits one after the other in one session
SessionMessages ==
    { [BlankMessage EXCEPT !.from = f, !.to = t, !.msgId = i] :
        f \in {Absent, Addrs(<<AddrA>>)},
        t \in {Addrs(<<AddrB>>), Addrs(<<AddrC>>)},
        i \in {"<m1@x>", "<m2@x>"} }

SessionNext ==
    \/ \E u \in {"username", "mallory"} : Auth(u, "password")
    \/ \E f \in {AddrA} : Mail(f)
    \/ \E t \in {AddrB, AddrC} : Rcpt(t)
    \/ \E m \in SessionMessages : DataWithin(MaxReuse, m, TRUE, TRUE)

\* an Access Point session that is used for several messages
SpecSession == ServerInit("AccessPointHandler") /\ [][SessionNext]_vars

IdleNext ==
    \/ GetMailbox
    \/ \E l \in Listeners, b \in Mailboxes : ListenUpdates(l, b)
    \/ StoreAddMessage
    \/ \E b \in Mailboxes : NotifyUpdateLock(b)
    \/ \E b \in Mailboxes : NotifyUpdate(b)
    \/ \E l \in Listeners : ForwardReceive(l)
    \/ \E l \in Listeners : ForwardSend(l)
    \/ \E l \in Listeners : ReadUpdate(l)
    \/ \E l \in Listeners : StopListenUpdates(l)
    \/ \E l \in Listeners : StopClose(l)
    \/ StopDelete

\* the mailbox objects of a user with IDLE listeners while messages are
\* appended to the user's mailbox
SpecIdle == ServerInit("none") /\ [][IdleNext]_vars

StoreNext ==
    \/ \E u \in StoreUsers, m \in StoreMessages : CallAddMessage(u, m)
    \/ \E u \in StoreUsers : CallGetMessages(u)
    \/ \E u \in StoreUsers, uid \in 0..MaxUid : CallDeleteMessage(u, uid)
    \/ \E u \in StoreUsers : CallCreateUserWithPassword(u)

\* the store with concurrent callers, each call atomic under the store's lock
SpecStore == ServerInit("none") /\ [][StoreNext]_vars

-----------------------------------------------------------------------------
(* Properties of the Delivery Point *)

\* a step of Data's loop that handles the recipient dpTo[dpIdx]
DPRecipientStep == dpPc = "loop" /\ dpIdx <= Len(dpTo) /\ Len(dpLog') = Len(dpLog) + 1

\* the step appended the message to the recipient's mailbox
DPAppended(recipient) ==
    mailboxes'[recipient].msgs = Append(mailboxes[recipient].msgs, dpMsg)

\* C6: for each recipient of a transport envelope the Delivery Point hands
\* exactly one notice to the original sender: a delivery receipt if and only
\* if the append to the recipient's mailbox succeeded, a delivery-error
\* notice if and only if it failed.
C6_OneNoticePerRecipient ==
    [][ (DPRecipientStep /\ isTransportEnvelope(dpMsg)) =>
          /\ Len(dpSent') = Len(dpSent) + 1
          /\ LET n == dpSent'[Len(dpSent')]
             IN /\ n.to = <<dpFrom>>
                /\ n.msg.recipient = dpTo[dpIdx]
                /\ (n.msg.kind = "delivery-receipt") <=> DPAppended(dpTo[dpIdx])
                /\ (n.msg.kind = "non-delivery-notice") <=> ~DPAppended(dpTo[dpIdx]) ]_vars

\* C7: the recipients of one DATA command are processed independently: once
\* Data is over for a message it could read, every recipient of the
\* transaction has been processed, whatever happened to the others.
C7_EveryRecipientProcessed ==
    (dpPc \in {"done", "panicked"} /\ dpMsg.ok) =>
        \A i \in 1..Len(dpTo) :
            \E k \in DOMAIN dpLog : dpLog[k].data = dpCount /\ dpLog[k].idx = i

\* C8: a non-transport artifact addressed to a mailbox that is registered and
\* available is appended to that mailbox as received, and no delivery
\* receipt or delivery-error notice is produced for it.
C8_ArtifactAppended ==
    [][ (/\ DPRecipientStep
         /\ ~isTransportEnvelope(dpMsg)
         /\ mailboxes[dpTo[dpIdx]].registered
         /\ mailboxes[dpTo[dpIdx]].available) =>
          /\ DPAppended(dpTo[dpIdx])
          /\ dpSent' = dpSent ]_vars

-----------------------------------------------------------------------------
(* Properties of the Access Point *)

\* the messages of a store, whatever the mailbox
StoredMessages(st) ==
    UNION { { <<k, i>> : i \in 1..Len(st.messages[k]) } : k \in DOMAIN st.messages }

\* the mailbox a store holds under a key
MailboxOf(st, key) == IF key \in DOMAIN st.messages THEN st.messages[key] ELSE <<>>

\* a step in which the Access Point handles a DATA command of an
\* authenticated client whose message it can read
APDataStep ==
    /\ sHandler = "AccessPointHandler"
    /\ sAuth
    /\ Len(sData') = Len(sData) + 1
    /\ sData'[Len(sData')].ok

\* the message of that step passes the validation against the envelope
APInboundValid == ValidateEnvelopeAndHeaders(sFrom, sTo, sData'[Len(sData')]) = ""

\* the step appended exactly one message to the sender's mailbox, and its
\* subject starts with the given prefix
APIssued(prefix) ==
    /\ Cardinality(StoredMessages(sStore')) = Cardinality(StoredMessages(sStore)) + 1
    /\ Len(MailboxOf(sStore', MailboxKey(sFrom))) = Len(MailboxOf(sStore, MailboxKey(sFrom))) + 1
    /\ LET box == MailboxOf(sStore', MailboxKey(sFrom))
       IN box[Len(box)].Envelope.Subject[1] = prefix

\* C1: for every inbound message the Access Point handles, the sender is
\* issued exactly one receipt: an acceptance receipt if the message passes
\* validation, a non-acceptance receipt otherwise.
C1_ExactlyOneReceipt ==
    [][ APDataStep =>
          IF APInboundValid THEN APIssued("ACCETTAZIONE")
          ELSE APIssued("AVVISO DI NON ACCETTAZIONE") ]_vars

\* C2: when validation fails, a non-acceptance receipt addressed to the
\* reverse path is appended to the sender's mailbox, no transport envelope is
\* handed on, and the handler reports the validation failure.
C2_NonAcceptanceToSender ==
    [][ (APDataStep /\ ~APInboundValid) =>
          /\ APIssued("AVVISO DI NON ACCETTAZIONE")
          /\ LET box == MailboxOf(sStore', MailboxKey(sFrom))
             IN box[Len(box)].Envelope.To = sFrom
          /\ sent' = sent
          /\ sReplies'[Len(sReplies')] = "validation failed" ]_vars

\* C3: every message that passes validation is accepted, has its transport
\* envelope built and is handed to the next-hop sink: the envelope that is
\* built is the one that is forwarded.
C3_ValidIsForwarded ==
    [][ (APDataStep /\ APInboundValid) =>
          /\ Len(sent') = Len(sent) + 1
          /\ sent'[Len(sent')].payload = ProcessPECMessage(sData'[Len(sData')]) ]_vars

\* the five conditions of the envelope validator, on the addresses the
\* headers parse to (a header that does not parse yields no address)
EnvelopeConsistent(reverseFrom, forwardTo, msg) ==
    /\ Len(msg.from.list) = 1
    /\ Len(msg.to.list) >= 1
    /\ Len(msg.bcc.list) = 0
    /\ ToLower(reverseFrom) = ToLower(msg.from.list[1])
    /\ \A i \in DOMAIN forwardTo :
          \/ \E j \in DOMAIN msg.to.list : ToLower(forwardTo[i]) = ToLower(msg.to.list[j])
          \/ \E j \in DOMAIN msg.cc.list : ToLower(forwardTo[i]) = ToLower(msg.cc.list[j])

-----------------------------------------------------------------------------
(* Properties of the Reception Point *)

\* the message is signed by a certified provider: the signature verifies and
\* the SHA-1 of the signer's certificate is in the Authority Registry
CertifiedSigned(msg) == msg.sig = "valid" /\ GetByCertHash(msg.signer)

\* the message is a valid signed transport envelope of a certified provider
ValidTransportEnvelope(msg) ==
    /\ CertifiedSigned(msg)
    /\ msg.xTrasporto = "posta-certificata"
    /\ ~msg.from.err /\ msg.from.list # <<>>
    /\ ~msg.to.err /\ msg.to.list # <<>>
    /\ msg.date # ""

\* a step in which the Reception Point handles a DATA command of an
\* authenticated client whose message it can read
RPDataStep ==
    /\ sHandler = "ReceptionPointHandler"
    /\ sAuth
    /\ Len(sData') = Len(sData) + 1
    /\ sData'[Len(sData')].ok

\* what that step handed to the sinks
RPHanded == SubSeq(sent', Len(sent) + 1, Len(sent'))

\* the inbound a sink was handed unchanged
ForwardedInbound(e) == e.payload[e.data]

\* C4: for a valid signed transport envelope of a certified provider the
\* Reception Point emits the taking-charge receipt and then forwards the
\* envelope to the Delivery Point, never the envelope without the receipt
\* before it.
C4_TakingChargeThenForward ==
    [][ (/\ RPDataStep
         /\ ValidTransportEnvelope(sData'[Len(sData')])
         /\ sReplies'[Len(sReplies')] = "nil") =>
          /\ Len(RPHanded) = 2
          /\ RPHanded[1].kind = "presa-in-carico"
          /\ RPHanded[2].kind = "inbound"
          /\ RPHanded[2].payload = sData' ]_vars

\* C5: for every parsable inbound for which no error is returned, exactly one
\* message is handed towards the Delivery Point: the inbound unchanged if and
\* only if it is a valid transport envelope or a valid receipt or
\* delivery-error notice, and an anomaly envelope wrapping it otherwise.
C5_ExactlyOneHanded ==
    [][ (RPDataStep /\ sReplies'[Len(sReplies')] \in {"nil", "panic"}) =>
          LET msg    == sData'[Len(sData')]
              handed == SelectSeq(RPHanded, LAMBDA e : e.kind \in {"inbound", "anomaly"})
          IN /\ Len(handed) = 1
             /\ (handed[1].kind = "inbound") <=>
                    (IsValidTransportEnvelope(msg) \/ IsValidReceiptOrAvviso(msg))
             /\ handed[1].kind = "inbound" => handed[1].payload = sData'
             /\ handed[1].kind = "anomaly" => handed[1].payload.attachment = sData' ]_vars

\* C9: a receipt or delivery-error notice is forwarded unchanged only if it
\* comes from a certified provider.
C9_ReceiptOnlyFromCertified ==
    \A i \in DOMAIN sent :
        (sent[i].kind = "inbound" /\ ForwardedInbound(sent[i]).xRicevuta # "") =>
            CertifiedSigned(ForwardedInbound(sent[i]))

\* C10: an inbound whose X-Ricevuta or X-Trasporto header disagrees with the
\* tipo of its certification XML is never forwarded unchanged: an anomaly
\* envelope is emitted instead.
C10_TipoMismatchIsAnomaly ==
    [][ (/\ RPDataStep
         /\ TipoMismatch(sData'[Len(sData')])
         /\ sReplies'[Len(sReplies')] = "nil") =>
          /\ Len(RPHanded) = 1
          /\ RPHanded[1].kind = "anomaly" ]_vars

-----------------------------------------------------------------------------
(* Properties of the artifacts the servers emit *)

\* a step in which the Access Point answers a DATA command with a
\* non-acceptance receipt
APReceiptStep ==
    /\ sHandler = "AccessPointHandler"
    /\ sAuth
    /\ Len(sData') = Len(sData) + 1
    /\ sReplies'[Len(sReplies')] = "validation failed"

\* the receipt that step generated
APReceipt ==
    GenerateNonAcceptanceEmail(<<"localhost">>,
        ValidationError(ValidateEnvelopeAndHeaders(sFrom, sTo, Head(sData'))), sSigner)

\* C12: every receipt carries an X-Riferimento-Message-ID header equal to
\* the Message-ID of the original message: here the receipt the Access Point
\* issues for the message of a DATA command.
C12_ReceiptRefersToOriginal ==
    [][ APReceiptStep =>
          APReceipt.xRiferimentoMessageID = Head(sData').msgId ]_vars

\* C13: every receipt handed on has an X-Ricevuta header with one of the six
\* receipt values, and every envelope an X-Trasporto header that is
\* posta-certificata or errore; none lacks the header.
C13_TypeHeaderPresent ==
    \A i \in DOMAIN sent :
        /\ sent[i].kind = "presa-in-carico" =>
              sent[i].payload.xRicevuta \in
                  { "accettazione", "non-accettazione", "presa-in-carico",
                    "avvenuta-consegna", "errore-consegna", "preavviso-errore-consegna" }
        /\ sent[i].kind = "anomaly" =>
              sent[i].payload.xTrasporto \in { "posta-certificata", "errore" }

\* C14: every receipt has the From address posta-certificata@<domain>, the
\* domain being the configured one: here the receipts in the mailboxes of
\* the Access Point.
C14_FromServiceAddress ==
    \A m \in StoredMessages(sStore) :
        sStore.messages[m[1]][m[2]].Envelope.From = ServiceAddr("posta-certificata", Domain)

\* C15: every receipt handed to a mailbox is S/MIME signed: the message in
\* the mailbox has a body, the multipart/signed one of the Signer.
C15_HandedIsSigned ==
    \A m \in StoredMessages(sStore) :
        "multipart/signed" \in sStore.messages[m[1]][m[2]].Body

\* C16: every outbound artifact carries exactly one Message-ID header: here
\* the receipt the Access Point issues.
C16_OneMessageID ==
    [][ APReceiptStep => APReceipt.msgId # "" ]_vars

-----------------------------------------------------------------------------
(* Properties of the receipt factory and of the parser *)

\* C17: within a run no two generated Message-ID values are equal, also when
\* two receipts are generated within the same tick of the clock.
C17_MessageIDsDistinct ==
    \A i \in DOMAIN generated : \A j \in DOMAIN generated :
        (i # j /\ generated[i].err = "" /\ generated[j].err = "") =>
            generated[i].identificativo # generated[j].identificativo

\* C18: running the classifier on the headers of an artifact the core emits
\* yields the type the artifact is meant to have: the receipt of a DATA
\* command that fails validation classifies as a non-acceptance receipt.
C18_ClassificationRoundTrip ==
    [][ APReceiptStep => extractPECHeaders(APReceipt) = "NonAcceptanceReceipt" ]_vars

\* C19: the classifier is the function of X-Trasporto and X-Ricevuta given by
\* the priority list: X-Trasporto containing posta-certificata, then
\* X-Ricevuta containing accettazione, avvenuta-consegna, errore-consegna,
\* presa-in-carico, non-accettazione, then X-Trasporto containing errore,
\* else None; matching ignores case.
C19_ClassifierByPriority ==
    libCall.fn = "extractPECHeaders" =>
        LET t == StrToLower(libCall.in.xTrasporto)
            r == StrToLower(libCall.in.xRicevuta)
        IN  libCall.out =
                IF Contains(t, "posta-certificata") THEN "CertifiedEmail"
                ELSE IF Contains(r, "accettazione") THEN "AcceptanceReceipt"
                ELSE IF Contains(r, "avvenuta-consegna") THEN "DeliveryReceipt"
                ELSE IF Contains(r, "errore-consegna") THEN "DeliveryErrorReceipt"
                ELSE IF Contains(r, "presa-in-carico") THEN "TakingChargeReceipt"
                ELSE IF Contains(r, "non-accettazione") THEN "NonAcceptanceReceipt"
                ELSE IF Contains(t, "errore") THEN "AnomalyEnvelope"
                ELSE "None"

\* C20: whenever parsePec returns without an error for a message that carries
\* a certification XML, the PecType and the tipo of the DatiCert it returns
\* agree.
C20_TypeAndTipoAgree ==
    (/\ libCall.fn = "parsePec"
     /\ libCall.out.err = ""
     /\ \E i \in DOMAIN libCall.in.body.parts :
            libCall.in.body.parts[i].daticert \notin {"none", "malformed"}) =>
        /\ libCall.out.pecMail.PecType = "AcceptanceReceipt" =>
              libCall.out.datiCert.Tipo = "accettazione"
        /\ libCall.out.pecMail.PecType = "DeliveryReceipt" =>
              libCall.out.datiCert.Tipo = "avvenuta-consegna"
        /\ libCall.out.pecMail.PecType = "CertifiedEmail" =>
              libCall.out.datiCert.Tipo = "posta-certificata"
        /\ libCall.out.pecMail.PecType = "DeliveryErrorReceipt" =>
              libCall.out.datiCert.Tipo = "errore-consegna"

\* C21: parsePec never returns success for a message that is not a PEC
\* artifact: when the headers classify as None, or the message is not
\* multipart/signed, it returns an error (and with it no PECMail the caller
\* may use).
C21_NotPecIsError ==
    (/\ libCall.fn = "parsePec"
     /\ \/ extractPECHeaders(libCall.in) = "None"
        \/ libCall.in.contentType # "multipart/signed") =>
        libCall.out.err # ""

-----------------------------------------------------------------------------
(* Properties of a session used for several messages *)

\* C29: message handling is stateless per message: within one session a
\* message is processed with only its own data, so the buffer the handler
\* reads holds the message just submitted and nothing of an earlier one, and
\* the reply is the one the handler gives for that message alone.
C29_StatelessPerMessage ==
    [][ (/\ sHandler = "AccessPointHandler"
         /\ sAuth
         /\ Len(sData') = Len(sData) + 1) =>
          LET msg == sData'[Len(sData')]
          IN  /\ sData' = <<msg>>
              /\ sReplies'[Len(sReplies')] =
                     AccessPointHandler(sFrom, sTo, <<msg>>, sSigner, sStore).return ]_vars

-----------------------------------------------------------------------------
(* Properties of the Signer *)

\* C24: a signing failure is fatal for the receipt: with a Signer whose
\* certificate is nil, whose key is nil or whose key is not a supported
\* private key, the Signer and the receipt generator return an error and no
\* artifact, the handler returns that error, and no receipt is appended to
\* any mailbox.
C24_SigningFailureIsFatal ==
    [][ (/\ sHandler = "AccessPointHandler"
         /\ sAuth
         /\ Len(sData') = Len(sData) + 1
         /\ Head(sData').ok
         /\ ValidateEnvelopeAndHeaders(sFrom, sTo, Head(sData')) # "") =>
          /\ \A signer \in [cert : {"cert", "nil"}, key : {"rsa", "ecdsa", "ed25519", "nil"}] :
                (signer.cert = "nil" \/ signer.key \notin {"rsa", "ecdsa"}) =>
                    LET receipt == GenerateNonAcceptanceEmail(<<"localhost">>,
                                       ValidationError(ValidateEnvelopeAndHeaders(
                                           sFrom, sTo, Head(sData'))), signer)
                        r == AccessPointHandler(sFrom, sTo, sData', signer, sStore)
                    IN  /\ SignEmail(signer) # "ok"
                        /\ receipt.err # ""
                        /\ DOMAIN receipt = {"err"}
                        /\ r.return = receipt.err
                        /\ r.store = sStore
          /\ (sSigner.cert = "nil" \/ sSigner.key \notin {"rsa", "ecdsa"}) =>
                /\ sReplies'[Len(sReplies')] = "failed to create signed email"
                /\ sStore' = sStore ]_vars

\* a DATA command that failed validation at an Access Point whose Signer
\* holds a key it cannot sign with: the error is the reply, the store is empty
C24_Witness ==
    /\ sHandler = "AccessPointHandler"
    /\ sSigner.key = "ed25519"
    /\ Len(sData) = 1
    /\ sData[1].ok
    /\ ValidateEnvelopeAndHeaders(sFrom, sTo, sData[1]) # ""
    /\ sReplies = <<"failed to create signed email">>
    /\ StoredMessages(sStore) = {}

\* the indices of the boundary lines in the bytes of a multipart/signed
BoundaryLines(bytes) == { i \in DOMAIN bytes : bytes[i] = Boundary }

\* the bytes of the first part of a multipart/signed message: those between
\* the first boundary line and the CRLF that precedes the next boundary line
FirstPart(bytes) ==
    LET first == CHOOSE i \in BoundaryLines(bytes) : \A j \in BoundaryLines(bytes) : i <= j
        next  == CHOOSE i \in BoundaryLines(bytes) : i # first
    IN  SubSeq(bytes, first + 3, next - 3)

\* C25: the bytes of the first part of the multipart/signed message that
\* CreateSignedMimeMessage produces are exactly the bytes that were passed to
\* the PKCS#7 signer, whether or not the payload ends with CRLF.
C25_SignedPartIsPayload ==
    (libCall.fn = "CreateSignedMimeMessage" /\ libCall.out.err = "") =>
        FirstPart(libCall.out.bytes) = libCall.out.signed

\* C26: for every payload given to the Signer, also one with bare LF line
\* endings, the payload bytes in the signed multipart body hold no LF that
\* is not immediately preceded by CR.
C26_NoBareLF ==
    (libCall.fn = "CreateSignedMimeMessage" /\ libCall.out.err = "") =>
        LET part == FirstPart(libCall.out.bytes)
        IN  \A i \in DOMAIN part :
                part[i] = "\n" => (i > 1 /\ part[i - 1] = "\r")

\* C28: formatBase64(d, n) with n >= 1 splits d into consecutive lines of
\* exactly n characters, only the last may be shorter, joined by CRLF, with
\* no CRLF after the last line; removing the CRLFs yields d, and an empty d
\* yields an empty result.
C28_FormatBase64Lines ==
    (libCall.fn = "formatBase64" /\ libCall.in.lineLength >= 1) =>
        LET d   == libCall.in.data
            n   == libCall.in.lineLength
            out == libCall.out
            seps == IF d = <<>> THEN 0 ELSE (Len(d) - 1) \div n
        IN  /\ Len(out) = Len(d) + 2 * seps
            /\ \A j \in DOMAIN d : out[j + 2 * ((j - 1) \div n)] = d[j]
            /\ \A m \in 1..seps :
                    /\ out[m * n + 2 * (m - 1) + 1] = "\r"
                    /\ out[m * n + 2 * (m - 1) + 2] = "\n"
            /\ SelectSeq(out, LAMBDA c : c \notin {"\r", "\n"}) = d
            /\ d = <<>> => out = <<>>

\* a string of four characters cut into lines of two: two full lines, one
\* CRLF between them and none at the end
C28_Witness ==
    /\ libCall.fn = "formatBase64"
    /\ libCall.in.data = <<"A", "B", "B", "A">>
    /\ libCall.in.lineLength = 2
    /\ libCall.out = <<"A", "B", "\r", "\n", "B", "A">>

\* C27: the transport envelope inherits every Received header of the
\* original, in order, with To, Cc, Return-Path, Message-ID,
\* X-Riferimento-Message-ID and X-TipoRicevuta; it sets X-Trasporto to
\* posta-certificata and Subject to "POSTA CERTIFICATA: " and the original
\* subject; and it sets Reply-To to the original From if and only if the
\* original has no Reply-To.
C27_EnvelopeInherits ==
    libCall.fn = "CreatePECTransportEnvelope" =>
        /\ libCall.out.received = libCall.in.received
        /\ libCall.out.to = libCall.in.to.list
        /\ libCall.out.cc = libCall.in.cc
        /\ libCall.out.returnPath = libCall.in.returnPath
        /\ libCall.out.msgId = libCall.in.msgId
        /\ libCall.out.xRiferimentoMessageID = libCall.in.xRiferimentoMessageID
        /\ libCall.out.xTipoRicevuta = libCall.in.xTipoRicevuta
        /\ libCall.out.xTrasporto = "posta-certificata"
        /\ libCall.out.subject = <<"POSTA CERTIFICATA", libCall.in.subject>>
        /\ (libCall.out.replyTo # <<>>) <=> (libCall.in.replyTo = "")
        /\ libCall.in.replyTo = "" => libCall.out.replyTo = <<"From", libCall.in.from.list>>

-----------------------------------------------------------------------------
(* Properties of the delivery receipts *)

\* C22: the composition of a delivery receipt follows X-TipoRicevuta, trimmed
\* and ignoring case: breve gives the certification XML and a minimal text,
\* no original message, and X-Tipo-Ricevuta: breve; sintetica gives a minimal
\* text only; absent or anything else gives the full receipt.
C22_CompositionByTipoRicevuta ==
    libCall.fn = "createDeliveryReceipt" =>
        LET tipo == StrToLower(TrimSpace(libCall.in.originalMsg.xTipoRicevuta))
            parts == { libCall.out.body[i] : i \in DOMAIN libCall.out.body }
        IN  /\ tipo = "breve" =>
                  /\ parts = {"text/plain", "application/xml"}
                  /\ libCall.out.xTipoRicevuta = "breve"
            /\ tipo = "sintetica" => parts = {"text/plain"}
            /\ tipo \notin {"breve", "sintetica"} =>
                  /\ {"text/plain", "application/xml"} \subseteq parts
                  /\ libCall.out.xTipoRicevuta = "normale"

\* C23: a full delivery receipt holds the original message as a
\* message/rfc822 part if and only if the recipient is in To or in neither To
\* nor Cc, and lacks it if and only if the recipient is in Cc and not in To;
\* addresses are compared ignoring case.
C23_RecipientPrimariness ==
    (/\ libCall.fn = "createDeliveryReceipt"
     /\ libCall.out.xTipoRicevuta = "normale") =>
        LET to    == libCall.in.originalMsg.to
            cc    == libCall.in.originalMsg.cc
            inTo  == \E i \in DOMAIN to : ToLower(to[i]) = ToLower(libCall.in.recipient)
            inCc  == \E i \in DOMAIN cc : ToLower(cc[i]) = ToLower(libCall.in.recipient)
            original == \E i \in DOMAIN libCall.out.body :
                            libCall.out.body[i] = "message/rfc822"
        IN  /\ original <=> (inTo \/ (~inTo /\ ~inCc))
            /\ ~original <=> (inCc /\ ~inTo)

\* a full receipt for a recipient that is in Cc and, in another letter case,
\* in To: the original message is attached
C23_Witness ==
    /\ libCall.fn = "createDeliveryReceipt"
    /\ libCall.in.recipient = AddrB
    /\ libCall.in.originalMsg.to = <<AddrBUp>>
    /\ libCall.in.originalMsg.cc = <<AddrB>>
    /\ libCall.out.xTipoRicevuta = "normale"
    /\ libCall.out.body = <<"text/plain", "application/xml", "message/rfc822">>

-----------------------------------------------------------------------------
(* Properties of the IDLE listeners *)

\* C30: however many messages are appended between two reads of a listener,
\* at most one notification is pending for that listener (in updateCh, in the
\* hand of the forwarding goroutine or in ch), and a notifier that was started
\* can always run NotifyUpdate to its end
C30_OnePendingPerListener ==
    /\ \A l \in Listeners : idle[l].updateCh + idle[l].hand + idle[l].ch <= 1
    /\ \A b \in locked : ENABLED NotifyUpdate(b)

\* C39: NotifyUpdate never sends on a channel StopListenUpdates closed (the
\* send would panic), and idleClients of a mailbox object is not changed
\* while NotifyUpdate holds idleMutex of the object and reads it
C39_NotifyAndStopInterleaveSafely ==
    [][ /\ ~crashed'
        /\ \A l \in Listeners :
              idle'[l].registered # idle[l].registered => idle'[l].box \notin locked ]_vars

\* C40: when AddMessage appends a message, every listener that called
\* ListenUpdates on a mailbox object of the user, did not stop itself and has
\* no update on its way yet, still has its channel open in idleClients and
\* has NotifyUpdate of its mailbox object started for the message
C40_EveryListenerIsNotified ==
    [][ appended' = appended + 1 =>
          \A l \in Listeners :
              (/\ idle[l].box # 0 /\ ~idle[l].stopped
               /\ idle[l].updateCh + idle[l].hand + idle[l].ch = 0
               /\ notifying[idle[l].box] = 0 /\ idle[l].box \notin locked) =>
                  /\ idle[l].registered /\ ~idle[l].closed
                  /\ notifying'[idle[l].box] = 1 ]_vars

-----------------------------------------------------------------------------
(* Properties of the InMemoryStore *)

\* C31: after any sequence of AddMessage and DeleteMessage calls the sequence
\* numbers of the messages of a mailbox are 1..n in mailbox order
C31_SeqNumsAreDense ==
    \A k \in DOMAIN sStore.messages :
        \A i \in DOMAIN sStore.messages[k] : sStore.messages[k][i].SeqNum = i

\* C36: the message AddMessage has just filed under a name is in the list
\* GetMessages returns for that name, and in the list of no other name
C36_SameKey ==
    libCall.fn = "AddMessage" =>
        /\ \E i \in DOMAIN GetMessages(sStore, libCall.in) :
              GetMessages(sStore, libCall.in)[i] = libCall.out
        /\ \A u \in StoreUsers \ {libCall.in} :
              \A i \in DOMAIN GetMessages(sStore, u) :
                  GetMessages(sStore, u)[i] # libCall.out

\* C37: the UID AddMessage has just assigned is at least 1 and unlike the
\* UID of any other message of the mailbox
C37_UidsAreFreshAndPositive ==
    libCall.fn = "AddMessage" =>
        /\ libCall.out.Uid >= 1
        /\ LET box == GetMessages(sStore, MailboxKey(libCall.in))
           IN \A i \in 1..(Len(box) - 1) : box[i].Uid < libCall.out.Uid

\* C38: a list GetMessages returned keeps its contents whatever AddMessage
\* and DeleteMessage do to the mailbox afterwards
C38_ReturnedListIsStable ==
    [][ (held.taken /\ libCall'.fn \in {"AddMessage", "DeleteMessage"}) =>
            held'.list = held.list ]_vars

-----------------------------------------------------------------------------
(* Properties of the Delivery Point when a receipt cannot be sent *)

\* C32: when the mailbox took the message of a recipient and the delivery
\* receipt could not be sent, processMessage returns nil for the recipient,
\* no delivery-error notice is sent for it and the send is not tried again
C32_ReceiptFailureKeepsSuccess ==
    \A k \in DOMAIN dpLog :
        (dpLog[k].transport /\ dpLog[k].delivery = "ok" /\ dpLog[k].send # "ok") =>
            /\ dpLog[k].return = "nil"
            /\ \A j \in DOMAIN dpSent :
                  ~(dpSent[j].msg.recipient = dpLog[k].recipient
                    /\ dpSent[j].msg.xRicevuta = "mancata-consegna")
            /\ \A j \in DOMAIN dpLog :
                  (dpLog[j].data = dpLog[k].data /\ dpLog[j].idx = dpLog[k].idx) => j = k

-----------------------------------------------------------------------------
(* Properties of a session that has not authenticated *)

\* C33: while Auth has not succeeded, no command changes the session's From,
\* To or data, a DATA command is answered with the authentication-required
\* error, and the handler does not run (nothing is stored, nothing is sent)
C33_AuthRequired ==
    [][ ~sAuth =>
          /\ sFrom' = sFrom /\ sTo' = sTo /\ sData' = sData
          /\ sStore' = sStore /\ sent' = sent
          /\ (sReplies' # sReplies =>
                sReplies' = Append(sReplies, "auth required")) ]_vars

\* a DATA command was refused, and a later Auth with valid credentials
\* opened the session for Mail
C33_Witness ==
    /\ sAuth /\ sFrom # NoAddr
    /\ Len(sReplies) > 0 /\ sReplies[1] = "auth required"

-----------------------------------------------------------------------------
(* Properties of the Reception Point for the envelopes of the Signer *)

\* C34: a transport envelope signed as the Signer signs (multipart/signed
\* with a detached signature) by a certificate of a certified provider is a
\* valid transport envelope for the Reception Point
C34_SignerEnvelopeRecognised ==
    (/\ sHandler = "ReceptionPointHandler" /\ sAuth /\ sData # <<>>
     /\ Head(sData).ok
     /\ Head(sData).smime = "detached" /\ Head(sData).sig = "valid"
     /\ GetByCertHash(Head(sData).signer)
     /\ Head(sData).xTrasporto = "posta-certificata"
     /\ Head(sData).from.list # <<>> /\ Head(sData).date # "") =>
        IsValidTransportEnvelope(Head(sData))

\* C35: CreateAnomalyEnvelope returns an envelope or an error for every
\* inbound the Reception Point reads, whatever its From header is, and the
\* handler does not crash
C35_AnomalyEnvelopeNeverPanics ==
    (sHandler = "ReceptionPointHandler" /\ sAuth /\ sData # <<>> /\ Head(sData).ok) =>
        /\ ~CreateAnomalyEnvelope(sData).panic
        /\ \A i \in DOMAIN sReplies : sReplies[i] # "panic"

====
